---- MODULE Spec2Model ----
(***************************************************************************)
(* nanocbf: reading and writing CBF detector images.                       *)
(*                                                                         *)
(* The module models nanocbf::CBFFrame (the byte-offset codec, the text    *)
(* envelope written around the payload, the scanner that read() runs over  *)
(* a file, the MD5 digest of the payload) and, where it differs, the       *)
(* CbfFrame of cbfframe_simple (its write(), read(), dataset name and      *)
(* digest text).                                                           *)
(*                                                                         *)
(* Bytes are the integers 0..255, a text is the sequence of its character  *)
(* codes, a file is a sequence of bytes.  Positions are 0-based as in the  *)
(* source; element p of a C++ buffer b is b[p + 1] here.                   *)
(*                                                                         *)
(* int32_t values are the integers -2^31 .. 2^31-1; sums and differences   *)
(* are taken 16 bits at a time and wrapped, as the two's complement        *)
(* machine does.  The language leaves an overflowing int32_t sum or        *)
(* difference undefined; the build of the README (cmake with its default   *)
(* flags, nothing that traps) compiles both to the wrapping instruction,   *)
(* which is the one outcome modelled.                                      *)
(***************************************************************************)
EXTENDS Integers, Sequences, FiniteSets, TLC

VARIABLES
    header,       \* CBFFrame::header
    data,         \* CBFFrame::data
    width,        \* CBFFrame::width
    height,       \* CBFFrame::height
    m_error,      \* CBFFrame::m_error
    disk,         \* the bytes of the file of each name, or NoFile
    origin,       \* per name: where its file comes from, [kind, frame], and
                  \* for a file written over its own read, the file before
    op,           \* the last step: "none", "set", "put", "write", "read", "new",
                  \* "rewrite"
    ret,          \* what the last call returned: "true", "false", "throws"
    arg,          \* the file name handed to the last call
    loc,          \* the local variables of the last read()
    pre,          \* the frame as it was when the last call was made
    calls,        \* the number of calls of read() and write() so far
    samples,      \* codec: the samples handed to compressData
    compressed,   \* codec: the bytes compressData returned
    expected,     \* codec: <<width, height>> handed to decompressData
    decoded,      \* codec: the samples decompressData returned
    cpc,          \* codec: "start", "compressed", "decoded", "cut"
    message,      \* digest: the bytes handed to generateMD5
    md5Hash,      \* digest: the text generateMD5 returned, or the digest
                  \* md5Final returned
    dpc,          \* digest: "start", "CBFFrame", "CbfFrame", "update", "final"
    md5ctx,       \* digest: state, count and buffer of generateMD5
    fed,          \* digest: how many bytes of message md5Update has been handed
    blocks        \* digest: the blocks handed to md5Transform so far

frameVars == <<header, data, width, height, m_error>>
fileVars  == <<disk, origin, op, ret, arg, loc, pre, calls>>
codecVars == <<samples, compressed, expected, decoded, cpc>>
digestVars == <<message, md5Hash, dpc, md5ctx, fed, blocks>>
vars == <<frameVars, fileVars, codecVars, digestVars>>

-----------------------------------------------------------------------------
(* Bounds of the model *)

\* longest sample sequence handed to the codec
MaxSamples == 3

\* most calls of read() and write() in one run
MaxCalls == 2

-----------------------------------------------------------------------------
(* 32-bit two's complement arithmetic *)

INT32_MAX == 2147483647
INT32_MIN == -2147483647 - 1

Lo16(a) == a % 65536
Hi16(a) == a \div 65536

\* the int32_t whose upper half is hi (mod 2^16, read as signed) and whose
\* lower half is lo
Wrap32(hi, lo) ==
    LET h == hi % 65536
    IN  (IF h >= 32768 THEN h - 65536 ELSE h) * 65536 + lo

\* a + b in int32_t
Add32(a, b) ==
    LET l == Lo16(a) + Lo16(b)
    IN  Wrap32(Hi16(a) + Hi16(b) + (l \div 65536), l % 65536)

\* a - b in int32_t
Sub32(a, b) ==
    LET l == Lo16(a) - Lo16(b)
    IN  Wrap32(Hi16(a) - Hi16(b) + (l \div 65536), l % 65536)

-----------------------------------------------------------------------------
(* Texts and byte strings *)

\* std::string::npos
NPOS == -1

\* whether pattern stands in text at position p
MatchAt(text, pattern, p) ==
    /\ p >= 0
    /\ p + Len(pattern) <= Len(text)
    /\ \A k \in 1..Len(pattern) : text[p + k] = pattern[k]

\* the least element of a non-empty set of positions
MinPos(S) == CHOOSE p \in S : \A q \in S : p <= q
MaxPos(S) == CHOOSE p \in S : \A q \in S : p >= q

\* text.find(pattern, from), and std::search from text.begin() + from: the
\* first position >= from where pattern stands, or NPOS
Find(text, pattern, from) ==
    LET hits == {p \in from..(Len(text) - Len(pattern)) :
                    MatchAt(text, pattern, p)}
    IN  IF hits = {} THEN NPOS ELSE MinPos(hits)

\* text.find_last_of(chars): the last position holding one of chars, or NPOS
FindLastOf(text, chars) ==
    LET hits == {p \in 0..(Len(text) - 1) : text[p + 1] \in chars}
    IN  IF hits = {} THEN NPOS ELSE MaxPos(hits)

\* text.substr(pos, count) for pos <= size: count is a size_t, so a negative
\* difference handed to it is a huge count, and the result runs to the end
Substr(text, pos, count) ==
    IF count < 0 \/ pos + count >= Len(text)
    THEN SubSeq(text, pos + 1, Len(text))
    ELSE SubSeq(text, pos + 1, pos + count)

\* std::isspace in the "C" locale, and \s of std::regex
IsSpace(c) == c \in {9, 10, 11, 12, 13, 32}
\* \d of std::regex
IsDigit(c) == c >= 48 /\ c <= 57

\* operator<< of an integer: its decimal digits, '-' first when negative
RECURSIVE decimal(_)
decimal(n) ==
    IF n < 0 THEN <<45>> \o decimal(-n)
    ELSE IF n < 10 THEN <<48 + n>>
    ELSE decimal(n \div 10) \o <<48 + (n % 10)>>

\* std::stoi of a run of digits: [ok, value]; ok is FALSE when the value does
\* not fit in int, where std::stoi throws std::out_of_range
RECURSIVE stoiFrom(_, _, _)
stoiFrom(digits, i, acc) ==
    IF i > Len(digits) THEN [ok |-> TRUE, value |-> acc]
    ELSE LET dgt == digits[i] - 48
         IN  IF acc > 214748364 \/ (acc = 214748364 /\ dgt > 7)
             THEN [ok |-> FALSE, value |-> 0]
             ELSE stoiFrom(digits, i + 1, acc * 10 + dgt)

stoi(digits) == stoiFrom(digits, 1, 0)

\* the length of the run of characters satisfying Class(_) that starts at p
RECURSIVE RunLength(_, _, _)
RunLength(text, p, spaces) ==
    IF p < Len(text) /\ (IF spaces THEN IsSpace(text[p + 1])
                                   ELSE IsDigit(text[p + 1]))
    THEN 1 + RunLength(text, p + 1, spaces)
    ELSE 0

\* std::regex_search(text, match, label ":\s+(\d+)"): the capture of the
\* leftmost match, [found, digits]
RegexField(text, label) ==
    LET Hit(p) == /\ MatchAt(text, label, p)
                  /\ LET ws == RunLength(text, p + Len(label), TRUE)
                     IN  /\ ws >= 1
                         /\ RunLength(text, p + Len(label) + ws, FALSE) >= 1
        hits == {p \in 0..(Len(text) - Len(label)) : Hit(p)}
    IN  IF hits = {}
        THEN [found |-> FALSE, digits |-> <<>>]
        ELSE LET p  == MinPos(hits)
                 ws == RunLength(text, p + Len(label), TRUE)
                 at == p + Len(label) + ws
             IN  [found |-> TRUE,
                  digits |-> SubSeq(text, at + 1,
                                    at + RunLength(text, at, FALSE))]

\* the length of the run of characters other than '\r' and '\n' that
\* starts at p
RECURSIVE LineLength(_, _)
LineLength(text, p) ==
    IF p < Len(text) /\ text[p + 1] \notin {13, 10}
    THEN 1 + LineLength(text, p + 1)
    ELSE 0

\* std::regex_search(text, match, label "\s+([^\r\n]+)"): the capture of
\* the leftmost match, [found, value].  \s+ takes the longest run of
\* whitespace that leaves a character other than '\r' and '\n' after it
RegexLine(text, label) ==
    LET Gaps(p) == {k \in 1..RunLength(text, p + Len(label), TRUE) :
                       /\ p + Len(label) + k < Len(text)
                       /\ text[p + Len(label) + k + 1] \notin {13, 10}}
        hits == {p \in 0..(Len(text) - Len(label)) :
                    MatchAt(text, label, p) /\ Gaps(p) # {}}
    IN  IF hits = {}
        THEN [found |-> FALSE, value |-> <<>>]
        ELSE LET at == MinPos(hits) + Len(label) + MaxPos(Gaps(MinPos(hits)))
             IN  [found |-> TRUE,
                  value |-> SubSeq(text, at + 1, at + LineLength(text, at))]


\* "_array_data.data"
ARRAY_DATA_MARKER ==
    <<95, 97, 114, 114, 97, 121, 95, 100, 97, 116, 97, 46, 100, 97, 116, 97>>

\* "--CIF-BINARY-FORMAT-SECTION--"
SECTION_START ==
    <<45, 45, 67, 73, 70, 45, 66, 73, 78, 65, 82, 89, 45, 70, 79, 82, 77,
      65, 84, 45, 83, 69, 67, 84, 73, 79, 78, 45, 45>>

\* "--CIF-BINARY-FORMAT-SECTION----"
SECTION_END ==
    <<45, 45, 67, 73, 70, 45, 66, 73, 78, 65, 82, 89, 45, 70, 79, 82, 77,
      65, 84, 45, 83, 69, 67, 84, 73, 79, 78, 45, 45, 45, 45>>

\* "data_"
DATA_PREFIX ==
    <<100, 97, 116, 97, 95>>

\* "X-Binary-Size-Fastest-Dimension:"
WIDTH_LABEL ==
    <<88, 45, 66, 105, 110, 97, 114, 121, 45, 83, 105, 122, 101, 45, 70, 97,
      115, 116, 101, 115, 116, 45, 68, 105, 109, 101, 110, 115, 105, 111,
      110, 58>>

\* "X-Binary-Size-Second-Dimension:"
HEIGHT_LABEL ==
    <<88, 45, 66, 105, 110, 97, 114, 121, 45, 83, 105, 122, 101, 45, 83,
      101, 99, 111, 110, 100, 45, 68, 105, 109, 101, 110, 115, 105, 111,
      110, 58>>

\* "X-Binary-Size:"
SIZE_LABEL ==
    <<88, 45, 66, 105, 110, 97, 114, 121, 45, 83, 105, 122, 101, 58>>

\* "Content-MD5:"
MD5_LABEL ==
    <<67, 111, 110, 116, 101, 110, 116, 45, 77, 68, 53, 58>>

\* ".cbf"
DOT_CBF ==
    <<46, 99, 98, 102>>

\* "\r\n--CIF-BINARY-FORMAT-SECTION----\r\n;\r\n\r\n"
TAIL_TEXT ==
    <<13, 10, 45, 45, 67, 73, 70, 45, 66, 73, 78, 65, 82, 89, 45, 70, 79,
      82, 77, 65, 84, 45, 83, 69, 67, 84, 73, 79, 78, 45, 45, 45, 45, 13,
      10, 59, 13, 10, 13, 10>>

\* "_array_data.data\r\n;\r\n--CIF-BINARY-FORMAT-SECTION--\r\nContent-Type: application/octet-stream;\r\n     conversions='x-CBF_BYTE_OFFSET'\r\nContent-Transfer-Encoding: BINARY\r\nX-Binary-Size: "
SECTION_HEAD ==
    <<95, 97, 114, 114, 97, 121, 95, 100, 97, 116, 97, 46, 100, 97, 116, 97,
      13, 10, 59, 13, 10, 45, 45, 67, 73, 70, 45, 66, 73, 78, 65, 82, 89,
      45, 70, 79, 82, 77, 65, 84, 45, 83, 69, 67, 84, 73, 79, 78, 45, 45,
      13, 10, 67, 111, 110, 116, 101, 110, 116, 45, 84, 121, 112, 101, 58,
      32, 97, 112, 112, 108, 105, 99, 97, 116, 105, 111, 110, 47, 111, 99,
      116, 101, 116, 45, 115, 116, 114, 101, 97, 109, 59, 13, 10, 32, 32,
      32, 32, 32, 99, 111, 110, 118, 101, 114, 115, 105, 111, 110, 115, 61,
      34, 120, 45, 67, 66, 70, 95, 66, 89, 84, 69, 95, 79, 70, 70, 83, 69,
      84, 34, 13, 10, 67, 111, 110, 116, 101, 110, 116, 45, 84, 114, 97,
      110, 115, 102, 101, 114, 45, 69, 110, 99, 111, 100, 105, 110, 103, 58,
      32, 66, 73, 78, 65, 82, 89, 13, 10, 88, 45, 66, 105, 110, 97, 114,
      121, 45, 83, 105, 122, 101, 58, 32>>

\* "\r\nX-Binary-ID: 1\r\nX-Binary-Element-Type: 'signed 32-bit integer'\r\nX-Binary-Element-Byte-Order: LITTLE_ENDIAN\r\nContent-MD5: "
SECTION_AFTER_SIZE ==
    <<13, 10, 88, 45, 66, 105, 110, 97, 114, 121, 45, 73, 68, 58, 32, 49,
      13, 10, 88, 45, 66, 105, 110, 97, 114, 121, 45, 69, 108, 101, 109,
      101, 110, 116, 45, 84, 121, 112, 101, 58, 32, 34, 115, 105, 103, 110,
      101, 100, 32, 51, 50, 45, 98, 105, 116, 32, 105, 110, 116, 101, 103,
      101, 114, 34, 13, 10, 88, 45, 66, 105, 110, 97, 114, 121, 45, 69, 108,
      101, 109, 101, 110, 116, 45, 66, 121, 116, 101, 45, 79, 114, 100, 101,
      114, 58, 32, 76, 73, 84, 84, 76, 69, 95, 69, 78, 68, 73, 65, 78, 13,
      10, 67, 111, 110, 116, 101, 110, 116, 45, 77, 68, 53, 58, 32>>

\* "\r\nX-Binary-Number-of-Elements: "
SECTION_AFTER_MD5 ==
    <<13, 10, 88, 45, 66, 105, 110, 97, 114, 121, 45, 78, 117, 109, 98, 101,
      114, 45, 111, 102, 45, 69, 108, 101, 109, 101, 110, 116, 115, 58, 32>>

\* "\r\nX-Binary-Size-Fastest-Dimension: "
SECTION_AFTER_COUNT ==
    <<13, 10, 88, 45, 66, 105, 110, 97, 114, 121, 45, 83, 105, 122, 101, 45,
      70, 97, 115, 116, 101, 115, 116, 45, 68, 105, 109, 101, 110, 115, 105,
      111, 110, 58, 32>>

\* "\r\nX-Binary-Size-Second-Dimension: "
SECTION_AFTER_WIDTH ==
    <<13, 10, 88, 45, 66, 105, 110, 97, 114, 121, 45, 83, 105, 122, 101, 45,
      83, 101, 99, 111, 110, 100, 45, 68, 105, 109, 101, 110, 115, 105, 111,
      110, 58, 32>>

\* "\r\nX-Binary-Size-Padding: 4095\r\n\r\n"
SECTION_AFTER_HEIGHT ==
    <<13, 10, 88, 45, 66, 105, 110, 97, 114, 121, 45, 83, 105, 122, 101, 45,
      80, 97, 100, 100, 105, 110, 103, 58, 32, 52, 48, 57, 53, 13, 10, 13,
      10>>

\* "###CBF: VERSION 1.5 generated by nanocbf\r\ndata_"
PREFIX_VERSION ==
    <<35, 35, 35, 67, 66, 70, 58, 32, 86, 69, 82, 83, 73, 79, 78, 32, 49,
      46, 53, 32, 103, 101, 110, 101, 114, 97, 116, 101, 100, 32, 98, 121,
      32, 110, 97, 110, 111, 99, 98, 102, 13, 10, 100, 97, 116, 97, 95>>

\* "\r\n\r\n"
PREFIX_END ==
    <<13, 10, 13, 10>>

\* "_array_data.header_convention 'nanocbf empty'\r\n_array_data.header_contents\r\n;\r\n;\r\n\r\n"
DEFAULT_HEADER ==
    <<95, 97, 114, 114, 97, 121, 95, 100, 97, 116, 97, 46, 104, 101, 97,
      100, 101, 114, 95, 99, 111, 110, 118, 101, 110, 116, 105, 111, 110,
      32, 34, 110, 97, 110, 111, 99, 98, 102, 32, 101, 109, 112, 116, 121,
      34, 13, 10, 95, 97, 114, 114, 97, 121, 95, 100, 97, 116, 97, 46, 104,
      101, 97, 100, 101, 114, 95, 99, 111, 110, 116, 101, 110, 116, 115, 13,
      10, 59, 13, 10, 59, 13, 10, 13, 10>>

\* "Could not open file: "
ERR_OPEN ==
    <<67, 111, 117, 108, 100, 32, 110, 111, 116, 32, 111, 112, 101, 110, 32,
      102, 105, 108, 101, 58, 32>>

\* "Could not find _array_data.data section"
ERR_ARRAY_DATA ==
    <<67, 111, 117, 108, 100, 32, 110, 111, 116, 32, 102, 105, 110, 100, 32,
      95, 97, 114, 114, 97, 121, 95, 100, 97, 116, 97, 46, 100, 97, 116, 97,
      32, 115, 101, 99, 116, 105, 111, 110>>

\* "Could not find --CIF-BINARY-FORMAT-SECTION-- marker"
ERR_SECTION_START ==
    <<67, 111, 117, 108, 100, 32, 110, 111, 116, 32, 102, 105, 110, 100, 32,
      45, 45, 67, 73, 70, 45, 66, 73, 78, 65, 82, 89, 45, 70, 79, 82, 77,
      65, 84, 45, 83, 69, 67, 84, 73, 79, 78, 45, 45, 32, 109, 97, 114, 107,
      101, 114>>

\* "Could not find --CIF-BINARY-FORMAT-SECTION---- end marker"
ERR_SECTION_END ==
    <<67, 111, 117, 108, 100, 32, 110, 111, 116, 32, 102, 105, 110, 100, 32,
      45, 45, 67, 73, 70, 45, 66, 73, 78, 65, 82, 89, 45, 70, 79, 82, 77,
      65, 84, 45, 83, 69, 67, 84, 73, 79, 78, 45, 45, 45, 45, 32, 101, 110,
      100, 32, 109, 97, 114, 107, 101, 114>>

\* "Could not find data_ section"
ERR_DATA ==
    <<67, 111, 117, 108, 100, 32, 110, 111, 116, 32, 102, 105, 110, 100, 32,
      100, 97, 116, 97, 95, 32, 115, 101, 99, 116, 105, 111, 110>>

\* "Could not find end of data_ line"
ERR_DATA_LINE ==
    <<67, 111, 117, 108, 100, 32, 110, 111, 116, 32, 102, 105, 110, 100, 32,
      101, 110, 100, 32, 111, 102, 32, 100, 97, 116, 97, 95, 32, 108, 105,
      110, 101>>

\* "Could not find CBF magic number after binary section header"
ERR_MAGIC ==
    <<67, 111, 117, 108, 100, 32, 110, 111, 116, 32, 102, 105, 110, 100, 32,
      67, 66, 70, 32, 109, 97, 103, 105, 99, 32, 110, 117, 109, 98, 101,
      114, 32, 97, 102, 116, 101, 114, 32, 98, 105, 110, 97, 114, 121, 32,
      115, 101, 99, 116, 105, 111, 110, 32, 104, 101, 97, 100, 101, 114>>

\* "File truncated - not enough binary data"
ERR_TRUNCATED ==
    <<70, 105, 108, 101, 32, 116, 114, 117, 110, 99, 97, 116, 101, 100, 32,
      45, 32, 110, 111, 116, 32, 101, 110, 111, 117, 103, 104, 32, 98, 105,
      110, 97, 114, 121, 32, 100, 97, 116, 97>>

\* "Could not find width in header"
ERR_WIDTH ==
    <<67, 111, 117, 108, 100, 32, 110, 111, 116, 32, 102, 105, 110, 100, 32,
      119, 105, 100, 116, 104, 32, 105, 110, 32, 104, 101, 97, 100, 101, 114>>

\* "Could not find height in header"
ERR_HEIGHT ==
    <<67, 111, 117, 108, 100, 32, 110, 111, 116, 32, 102, 105, 110, 100, 32,
      104, 101, 105, 103, 104, 116, 32, 105, 110, 32, 104, 101, 97, 100,
      101, 114>>

\* "Could not find data size in header"
ERR_SIZE ==
    <<67, 111, 117, 108, 100, 32, 110, 111, 116, 32, 102, 105, 110, 100, 32,
      100, 97, 116, 97, 32, 115, 105, 122, 101, 32, 105, 110, 32, 104, 101,
      97, 100, 101, 114>>

\* "ABCDEFGHIJKLMNOPQRSTUVWXYZabcdefghijklmnopqrstuvwxyz0123456789+/"
B64_CHARS ==
    <<65, 66, 67, 68, 69, 70, 71, 72, 73, 74, 75, 76, 77, 78, 79, 80, 81,
      82, 83, 84, 85, 86, 87, 88, 89, 90, 97, 98, 99, 100, 101, 102, 103,
      104, 105, 106, 107, 108, 109, 110, 111, 112, 113, 114, 115, 116, 117,
      118, 119, 120, 121, 122, 48, 49, 50, 51, 52, 53, 54, 55, 56, 57, 43,
      47>>

\* "out/test 1.cbf"
NAME_PLAIN ==
    <<111, 117, 116, 47, 116, 101, 115, 116, 32, 49, 46, 99, 98, 102>>

\* "_array_data.data.cbf"
NAME_MARKER ==
    <<95, 97, 114, 114, 97, 121, 95, 100, 97, 116, 97, 46, 100, 97, 116, 97,
      46, 99, 98, 102>>

\* "# Exposure_time 1.0 s\n;\n\n"
HEADER_PLAIN ==
    <<35, 32, 69, 120, 112, 111, 115, 117, 114, 101, 95, 116, 105, 109, 101,
      32, 49, 46, 48, 32, 115, 10, 59, 10, 10>>

\* "\r\n# Pixel_size 172e-6 m\r\n"
HEADER_BLANK_FIRST ==
    <<13, 10, 35, 32, 80, 105, 120, 101, 108, 95, 115, 105, 122, 101, 32,
      49, 55, 50, 101, 45, 54, 32, 109, 13, 10>>

\* "# _array_data.data\r\n# --CIF-BINARY-FORMAT-SECTION----\r\n"
HEADER_MARKER ==
    <<35, 32, 95, 97, 114, 114, 97, 121, 95, 100, 97, 116, 97, 46, 100, 97,
      116, 97, 13, 10, 35, 32, 45, 45, 67, 73, 70, 45, 66, 73, 78, 65, 82,
      89, 45, 70, 79, 82, 77, 65, 84, 45, 83, 69, 67, 84, 73, 79, 78, 45,
      45, 45, 45, 13, 10>>

\* "# data_y\r\n# --CIF-BINARY-FORMAT-SECTION----\r\n# X-Binary-Size: 1\r\n", the bytes
\* 0C 1A 04 D5, "\r\n"
HEADER_DECOY ==
    <<35, 32, 100, 97, 116, 97, 95, 121, 13, 10, 35, 32, 45, 45, 67, 73, 70,
      45, 66, 73, 78, 65, 82, 89, 45, 70, 79, 82, 77, 65, 84, 45, 83, 69,
      67, 84, 73, 79, 78, 45, 45, 45, 45, 13, 10, 35, 32, 88, 45, 66, 105,
      110, 97, 114, 121, 45, 83, 105, 122, 101, 58, 32, 49, 13, 10, 12, 26,
      4, 213, 13, 10>>

-----------------------------------------------------------------------------
(* Byte-offset codec *)

\* buffer.push_back(value & 0xFF); buffer.push_back((value >> 8) & 0xFF)
writeInt16LE(buffer, value) ==
    buffer \o <<value % 256, (value \div 256) % 256>>

writeInt32LE(buffer, value) ==
    buffer \o <<value % 256,
                (value \div 256) % 256,
                (value \div 65536) % 256,
                (value \div 16777216) % 256>>

\* the uint16_t at buffer + pos
readInt16LE(buffer, pos) ==
    buffer[pos + 1] + buffer[pos + 2] * 256

\* the uint32_t at buffer + pos, as the int32_t it is stored into
readInt32LE(buffer, pos) ==
    LET b3 == buffer[pos + 4]
    IN  buffer[pos + 1] + buffer[pos + 2] * 256 + buffer[pos + 3] * 65536
          + (IF b3 >= 128 THEN b3 - 256 ELSE b3) * 16777216

\* static_cast<int8_t>(b), static_cast<int16_t>(u)
ToInt8(b)  == IF b >= 128 THEN b - 256 ELSE b
ToInt16(u) == IF u >= 32768 THEN u - 65536 ELSE u

\* compressPixel with the 16-bit tier taken as the whole int16_t range
compressPixel_Full16(buffer, pixel, currentValue) ==
    LET delta == Sub32(pixel, currentValue)
    IN  IF delta >= -127 /\ delta <= 127
        THEN buffer \o <<delta % 256>>
        ELSE IF delta >= -32768 /\ delta <= 32767
        THEN writeInt16LE(buffer \o <<128>>, delta)
        ELSE writeInt32LE(writeInt16LE(buffer \o <<128>>, -32768), delta)

\* compressPixel with the 8-bit tier taken as the whole int8_t range
compressPixel_Full8(buffer, pixel, currentValue) ==
    LET delta == Sub32(pixel, currentValue)
    IN  IF delta >= -128 /\ delta <= 127
        THEN buffer \o <<delta % 256>>
        ELSE IF delta >= -32767 /\ delta <= 32767
        THEN writeInt16LE(buffer \o <<128>>, delta)
        ELSE writeInt32LE(writeInt16LE(buffer \o <<128>>, -32768), delta)

\* compressPixel with the 8-bit tier taken as the range of an unsigned byte
compressPixel_Byte255(buffer, pixel, currentValue) ==
    LET delta == Sub32(pixel, currentValue)
    IN  IF delta >= 0 /\ delta <= 255
        THEN buffer \o <<delta % 256>>
        ELSE IF delta >= -32767 /\ delta <= 32767
        THEN writeInt16LE(buffer \o <<128>>, delta)
        ELSE writeInt32LE(writeInt16LE(buffer \o <<128>>, -32768), delta)

\* one turn of the loop of compressData: the bytes pushed for pixel when the
\* running value is currentValue
compressPixel(buffer, pixel, currentValue) ==
    LET delta == Sub32(pixel, currentValue)
    IN  IF delta >= -127 /\ delta <= 127
        THEN buffer \o <<delta % 256>>
        ELSE IF delta >= -32767 /\ delta <= 32767
        THEN writeInt16LE(buffer \o <<128>>, delta)
        ELSE writeInt32LE(writeInt16LE(buffer \o <<128>>, -32768), delta)

RECURSIVE compressLoop(_, _, _, _)
compressLoop(pixels, i, currentValue, buffer) ==
    IF i > Len(pixels)
    THEN buffer
    ELSE compressLoop(pixels, i + 1, pixels[i],
                      compressPixel(buffer, pixels[i], currentValue))

compressData(pixels) == compressLoop(pixels, 1, 0, <<>>)

RECURSIVE decompressLoop(_, _, _, _, _)
decompressLoop(bytes, count, pos, currentValue, out) ==
    IF ~(pos < Len(bytes) /\ Len(out) < count)
    THEN out
    ELSE
      LET b  == bytes[pos + 1]
          p1 == pos + 1
      IN  IF b = 128
          THEN IF p1 + 1 >= Len(bytes)
               THEN out
               ELSE LET delta16 == ToInt16(readInt16LE(bytes, p1))
                        p3      == p1 + 2
                    IN  IF delta16 = -32768
                        THEN IF p3 + 3 >= Len(bytes)
                             THEN out
                             ELSE LET delta32 == readInt32LE(bytes, p3)
                                      v       == Add32(currentValue, delta32)
                                  IN  decompressLoop(bytes, count, p3 + 4, v,
                                                     Append(out, v))
                        ELSE LET v == Add32(currentValue, delta16)
                             IN  decompressLoop(bytes, count, p3, v,
                                                Append(out, v))
          ELSE LET v == Add32(currentValue, ToInt8(b))
               IN  decompressLoop(bytes, count, p1, v, Append(out, v))

\* decompressData going on for as long as there are bytes, whatever the
\* expected count
decompressData_Uncounted(bytes, w, h) ==
    decompressLoop(bytes, Len(bytes), 0, 0, <<>>)

decompressData(bytes, w, h) == decompressLoop(bytes, w * h, 0, 0, <<>>)

-----------------------------------------------------------------------------
(* MD5.  A uint32_t is the pair <<upper 16 bits, lower 16 bits>>. *)

RECURSIVE And16(_, _)
And16(a, b) ==
    IF a = 0 \/ b = 0 THEN 0
    ELSE (a % 2) * (b % 2) + 2 * And16(a \div 2, b \div 2)

WordAnd(x, y) == <<And16(x[1], y[1]), And16(x[2], y[2])>>
WordOr(x, y)  == <<x[1] + y[1] - And16(x[1], y[1]),
                   x[2] + y[2] - And16(x[2], y[2])>>
WordXor(x, y) == <<x[1] + y[1] - 2 * And16(x[1], y[1]),
                   x[2] + y[2] - 2 * And16(x[2], y[2])>>
WordNot(x)    == <<65535 - x[1], 65535 - x[2]>>

\* x + y in uint32_t
WordAdd(x, y) ==
    LET l == x[2] + y[2]
    IN  <<(x[1] + y[1] + (l \div 65536)) % 65536, l % 65536>>

RECURSIVE Pow2(_)
Pow2(n) == IF n = 0 THEN 1 ELSE 2 * Pow2(n - 1)

\* #define ROTLEFT(a, b) ((a << b) | (a >> (32 - b))), for 0 < b < 32
ROTLEFT(a, b) ==
    LET hi == IF b >= 16 THEN a[2] ELSE a[1]
        lo == IF b >= 16 THEN a[1] ELSE a[2]
        s  == b % 16
        up == Pow2(s)
        dn == Pow2(16 - s)
    IN  <<((hi * up) % 65536) + (lo \div dn),
          ((lo * up) % 65536) + (hi \div dn)>>

\* #define F, G, H, I
F(x, y, z) == WordOr(WordAnd(x, y), WordAnd(WordNot(x), z))
G(x, y, z) == WordOr(WordAnd(x, z), WordAnd(y, WordNot(z)))
H(x, y, z) == WordXor(WordXor(x, y), z)
I(x, y, z) == WordXor(y, WordOr(x, WordNot(z)))

\* static const uint32_t k[64]
MD5_K == <<
    <<55146, 42104>>, <<59591, 46934>>, <<9248, 28891>>, <<49597, 52974>>,
    <<62844, 4015>>, <<18311, 50730>>, <<43056, 17939>>, <<64838, 38145>>,
    <<27008, 39128>>, <<35652, 63407>>, <<65535, 23473>>, <<35164, 55230>>,
    <<27536, 4386>>, <<64920, 29075>>, <<42617, 17294>>, <<18868, 2081>>,
    <<63006, 9570>>, <<49216, 45888>>, <<9822, 23121>>, <<59830, 51114>>,
    <<54831, 4189>>, <<580, 5203>>, <<55457, 59009>>, <<59347, 64456>>,
    <<8673, 52710>>, <<49975, 2006>>, <<62677, 3463>>, <<17754, 5357>>,
    <<43491, 59653>>, <<64751, 41976>>, <<26479, 729>>, <<36138, 19594>>,
    <<65530, 14658>>, <<34673, 63105>>, <<28061, 24866>>, <<64997, 14348>>,
    <<42174, 59972>>, <<19422, 53161>>, <<63163, 19296>>, <<48831, 48240>>,
    <<10395, 32454>>, <<60065, 10234>>, <<54511, 12421>>, <<1160, 7429>>,
    <<55764, 53305>>, <<59099, 39397>>, <<8098, 31992>>, <<50348, 22117>>,
    <<62505, 8772>>, <<17194, 65431>>, <<43924, 9127>>, <<64659, 41017>>,
    <<25947, 22979>>, <<36620, 52370>>, <<65519, 62589>>, <<34180, 24017>>,
    <<28584, 32335>>, <<65068, 59104>>, <<41729, 17172>>, <<19976, 4513>>,
    <<63315, 32386>>, <<48442, 62005>>, <<10967, 53947>>, <<60294, 54161>>
    >>

\* static const int s[64]
MD5_S == <<
     7, 12, 17, 22,  7, 12, 17, 22,  7, 12, 17, 22,  7, 12, 17, 22,
     5,  9, 14, 20,  5,  9, 14, 20,  5,  9, 14, 20,  5,  9, 14, 20,
     4, 11, 16, 23,  4, 11, 16, 23,  4, 11, 16, 23,  4, 11, 16, 23,
     6, 10, 15, 21,  6, 10, 15, 21,  6, 10, 15, 21,  6, 10, 15, 21
    >>

\* uint32_t state[4] = {0x67452301, 0xEFCDAB89, 0x98BADCFE, 0x10325476}
MD5_INIT == <<<<26437, 8961>>, <<61389, 43913>>, <<39098, 56574>>, <<4146, 21622>>>>

\* state, count and buffer as generateMD5 initializes them
MD5_CTX ==
    [state |-> MD5_INIT, count |-> 0, buffer |-> [j \in 1..64 |-> 0]]

\* x[i] = block[i*4] | (block[i*4+1] << 8) | (block[i*4+2] << 16)
\*        | (block[i*4+3] << 24)
blockWord(block, i) ==
    <<block[i * 4 + 3] + block[i * 4 + 4] * 256,
      block[i * 4 + 1] + block[i * 4 + 2] * 256>>

\* one turn of the loop of md5Transform: round i on the registers
\* regs = <<a, b, c, d>>
md5Round(block, i, regs) ==
    LET a  == regs[1]
        b  == regs[2]
        c  == regs[3]
        d  == regs[4]
        f0 == IF i < 16 THEN F(b, c, d)
              ELSE IF i < 32 THEN G(b, c, d)
              ELSE IF i < 48 THEN H(b, c, d)
              ELSE I(b, c, d)
        g  == IF i < 16 THEN i
              ELSE IF i < 32 THEN (5 * i + 1) % 16
              ELSE IF i < 48 THEN (3 * i + 5) % 16
              ELSE (7 * i) % 16
        f  == WordAdd(WordAdd(WordAdd(f0, a), MD5_K[i + 1]),
                      blockWord(block, g))
    IN  <<d, WordAdd(b, ROTLEFT(f, MD5_S[i + 1])), b, c>>

\* the rounds i .. 63 of the loop of md5Transform (the test on Len(regs) has
\* each round computed before the following one is taken)
RECURSIVE md5Rounds(_, _, _)
md5Rounds(block, i, regs) ==
    IF i > 63 \/ Len(regs) # 4 THEN regs
    ELSE md5Rounds(block, i + 1, md5Round(block, i, regs))

\* state[0] += a; state[1] += b; state[2] += c; state[3] += d
addRegisters(state, regs) ==
    <<WordAdd(state[1], regs[1]), WordAdd(state[2], regs[2]),
      WordAdd(state[3], regs[3]), WordAdd(state[4], regs[4])>>

\* md5Transform(state, block): the new state
md5Transform(state, block) ==
    addRegisters(state, md5Rounds(block, 0, state))

\* std::memcpy(dst + at, src, Len(src)) and std::memset(dst + at, 0, n)
memcpy(dst, at, src) ==
    [j \in 1..Len(dst) |->
        IF j > at /\ j <= at + Len(src) THEN src[j - at] ELSE dst[j]]
memset0(dst, at, n) ==
    [j \in 1..Len(dst) |-> IF j > at /\ j <= at + n THEN 0 ELSE dst[j]]

\* the whole 64-byte blocks of input from position i on, run through
\* md5Transform: the for loop of md5Update (the test on Len(state) has each
\* block computed before the next is taken)
RECURSIVE md5Blocks(_, _, _)
md5Blocks(state, input, i) ==
    IF i + 64 <= Len(input) /\ Len(state) = 4
    THEN md5Blocks(md5Transform(state, SubSeq(input, i + 1, i + 64)),
                   input, i + 64)
    ELSE state

\* md5Update when the input fills the buffer: buffer1 is the buffer filled
\* up with the first firstChunk bytes of the input
md5UpdateFull(ctx, input, firstChunk, buffer1) ==
    [state  |-> md5Blocks(md5Transform(ctx.state, buffer1), input, firstChunk),
     count  |-> ctx.count + Len(input),
     buffer |-> memcpy(buffer1, 0,
                       SubSeq(input,
                              firstChunk
                                + ((Len(input) - firstChunk) \div 64) * 64 + 1,
                              Len(input)))]

\* md5Update copying a short input to the start of the buffer, not after
\* the bytes the buffer holds
md5Update_BufferStart(ctx, input) ==
    IF (ctx.count % 64) + Len(input) >= 64
    THEN md5UpdateFull(ctx, input, 64 - (ctx.count % 64),
                       memcpy(ctx.buffer, ctx.count % 64,
                              SubSeq(input, 1, 64 - (ctx.count % 64))))
    ELSE [state  |-> ctx.state,
          count  |-> ctx.count + Len(input),
          buffer |-> memcpy(ctx.buffer, 0, input)]

\* md5Update on the context [state, count, buffer]; count is a byte count
md5Update(ctx, input) ==
    IF (ctx.count % 64) + Len(input) >= 64
    THEN md5UpdateFull(ctx, input, 64 - (ctx.count % 64),
                       memcpy(ctx.buffer, ctx.count % 64,
                              SubSeq(input, 1, 64 - (ctx.count % 64))))
    ELSE [state  |-> ctx.state,
          count  |-> ctx.count + Len(input),
          buffer |-> memcpy(ctx.buffer, ctx.count % 64, input)]

\* the 8 bytes of count * 8, least significant first (count < 2^24 here)
bitCountBytes(count) ==
    LET bits == count * 8
    IN  <<bits % 256, (bits \div 256) % 256, (bits \div 65536) % 256,
          (bits \div 16777216) % 256, 0, 0, 0, 0>>

\* the 4 bytes of a state word, least significant first
wordBytes(w) == <<w[2] % 256, w[2] \div 256, w[1] % 256, w[1] \div 256>>

\* the 16 bytes of the digest: the four state words, least significant
\* byte first
stateBytes(state) ==
    wordBytes(state[1]) \o wordBytes(state[2])
      \o wordBytes(state[3]) \o wordBytes(state[4])

\* the end of md5Final: with the 0x80 appended and, where the length did not
\* fit, one more block run, pad to 56, append the bit count, transform
md5FinalBlock(state, buffer, index, count) ==
    stateBytes(md5Transform(state,
                            memcpy(memset0(buffer, index, 56 - index), 56,
                                   bitCountBytes(count))))

\* md5Final once the 0x80 is appended at bufferIndex
md5FinalPadded(ctx, buffer1, index1) ==
    IF index1 > 56
    THEN md5FinalBlock(md5Transform(ctx.state,
                                    memset0(buffer1, index1, 64 - index1)),
                       memset0(buffer1, index1, 64 - index1), 0, ctx.count)
    ELSE md5FinalBlock(ctx.state, buffer1, index1, ctx.count)

\* md5Final without the 0x80 stored after the message
md5Final_NoMarker(ctx) ==
    md5FinalPadded(ctx, ctx.buffer, (ctx.count % 64) + 1)

\* md5Final: the 16 bytes of the digest
md5Final(ctx) ==
    md5FinalPadded(ctx, memcpy(ctx.buffer, ctx.count % 64, <<128>>),
                   (ctx.count % 64) + 1)

\* one turn of the loop of bytesToBase64, for the chunk at position i
base64Chunk(bytes, i) ==
    LET length == Len(bytes)
        chunk  == bytes[i + 1] * 65536
                    + (IF i + 1 < length THEN bytes[i + 2] * 256 ELSE 0)
                    + (IF i + 2 < length THEN bytes[i + 3] ELSE 0)
    IN  <<B64_CHARS[((chunk \div 262144) % 64) + 1],
          B64_CHARS[((chunk \div 4096) % 64) + 1],
          IF i + 1 < length THEN B64_CHARS[((chunk \div 64) % 64) + 1] ELSE 61,
          IF i + 2 < length THEN B64_CHARS[(chunk % 64) + 1] ELSE 61>>

RECURSIVE base64From(_, _)
base64From(bytes, i) ==
    IF i < Len(bytes)
    THEN base64Chunk(bytes, i) \o base64From(bytes, i + 3)
    ELSE <<>>

bytesToBase64(bytes) == base64From(bytes, 0)

\* nanocbf::CBFFrame::generateMD5
generateMD5(bytes) ==
    LET ctx0 == [state |-> MD5_INIT, count |-> 0, buffer |-> [j \in 1..64 |-> 0]]
    IN  bytesToBase64(md5Final(md5Update(ctx0, bytes)))

-----------------------------------------------------------------------------
(* The text written around the payload *)

\* const std::vector<uint8_t> CBFFrame::CBF_MAGIC
CBF_MAGIC == <<12, 26, 4, 213>>

\* the length of the run of zero bytes CBF_TAIL starts with
TAIL_PADDING == 4095

\* const std::string CBFFrame::CBF_TAIL
CBF_TAIL == [j \in 1..TAIL_PADDING |-> 0] \o TAIL_TEXT

\* nanocbf::CBFFrame::extractBaseName
extractBaseName(filepath) ==
    LET lastSlash == FindLastOf(filepath, {47, 92})
        filename  == IF lastSlash = NPOS THEN filepath
                     ELSE Substr(filepath, lastSlash + 1, NPOS)
        dotPos    == FindLastOf(filename, {46})
        stem      == IF dotPos # NPOS /\ Substr(filename, dotPos, NPOS) = DOT_CBF
                     THEN Substr(filename, 0, dotPos)
                     ELSE filename
    IN  [j \in 1..Len(stem) |-> IF IsSpace(stem[j]) THEN 95 ELSE stem[j]]

\* generateCbfPrefix ending its lines with "\n" alone
generateCbfPrefix_BareLF(filename) ==
    SubSeq(PREFIX_VERSION, 1, Len(PREFIX_VERSION) - 7) \o <<10>>
      \o DATA_PREFIX \o extractBaseName(filename) \o <<10, 10>>

\* nanocbf::CBFFrame::generateCbfPrefix
generateCbfPrefix(filename) ==
    PREFIX_VERSION \o extractBaseName(filename) \o PREFIX_END

\* generateDefaultHeader without the blank line that ends the block
generateDefaultHeader_Bare == SubSeq(DEFAULT_HEADER, 1, Len(DEFAULT_HEADER) - 2)

\* nanocbf::CBFFrame::generateDefaultHeader
generateDefaultHeader == DEFAULT_HEADER

\* nanocbf::CBFFrame::generateArrayDataSection, for the frame's width and
\* height
generateArrayDataSection(compressedData, w, h) ==
    SECTION_HEAD \o decimal(Len(compressedData))
      \o SECTION_AFTER_SIZE \o generateMD5(compressedData)
      \o SECTION_AFTER_MD5 \o decimal(w * h)
      \o SECTION_AFTER_COUNT \o decimal(w)
      \o SECTION_AFTER_WIDTH \o decimal(h)
      \o SECTION_AFTER_HEIGHT

\* write() with the magic number put after the payload
writeBytes_MagicLast(filename, frame) ==
    generateCbfPrefix(filename)
      \o (IF frame.header = <<>> THEN generateDefaultHeader ELSE frame.header)
      \o generateArrayDataSection(compressData(frame.data),
                                  frame.width, frame.height)
      \o compressData(frame.data) \o CBF_MAGIC \o CBF_TAIL

\* what write() puts into the file it has opened
writeBytes(filename, frame) ==
    LET payload       == compressData(frame.data)
        cbfPrefix     == generateCbfPrefix(filename)
        headerToWrite == IF frame.header = <<>> THEN generateDefaultHeader
                         ELSE frame.header
        arrayDataSection ==
            generateArrayDataSection(payload, frame.width, frame.height)
    IN  cbfPrefix \o headerToWrite \o arrayDataSection \o CBF_MAGIC
          \o payload \o CBF_TAIL

\* the precondition write() tests before it opens the file
writeAccepts(frame) ==
    ~(frame.data = <<>> \/ frame.width = 0 \/ frame.height = 0)

-----------------------------------------------------------------------------
(* The scanner of read() *)

\* one field of parseBinaryInfo: std::regex_search for label ":\s+(\d+)" and
\* std::stoi of the capture.  [found, ok, value]; ok is FALSE where std::stoi
\* throws
fieldValue(match) ==
    [found |-> match.found,
     ok    |-> match.found => stoi(match.digits).ok,
     value |-> IF match.found THEN stoi(match.digits).value ELSE 0]

parseField(text, label) == fieldValue(RegexField(text, label))

\* the body of parseBinaryInfo once the three fields are searched: the fields
\* are taken in the order width, height, size, and each of width and height is
\* assigned (through the reference) as soon as it is parsed
parseFields(frame, w, h, s) ==
    IF ~w.found
    THEN [outcome |-> "false", width |-> frame.width, height |-> frame.height,
          dataSize |-> 0, m_error |-> ERR_WIDTH]
    ELSE IF ~w.ok
    THEN [outcome |-> "throws", width |-> frame.width,
          height |-> frame.height, dataSize |-> 0, m_error |-> frame.m_error]
    ELSE IF ~h.found
    THEN [outcome |-> "false", width |-> w.value, height |-> frame.height,
          dataSize |-> 0, m_error |-> ERR_HEIGHT]
    ELSE IF ~h.ok
    THEN [outcome |-> "throws", width |-> w.value, height |-> frame.height,
          dataSize |-> 0, m_error |-> frame.m_error]
    ELSE IF ~s.found
    THEN [outcome |-> "false", width |-> w.value, height |-> h.value,
          dataSize |-> 0, m_error |-> ERR_SIZE]
    ELSE IF ~s.ok
    THEN [outcome |-> "throws", width |-> w.value, height |-> h.value,
          dataSize |-> 0, m_error |-> frame.m_error]
    ELSE [outcome |-> "true", width |-> w.value, height |-> h.value,
          dataSize |-> s.value, m_error |-> frame.m_error]

\* the end of parseBinaryInfo with a file without Content-MD5 turned down
parseMD5_Required(info, match) ==
    [outcome  |-> IF info.outcome = "true" /\ ~match.found THEN "false"
                  ELSE info.outcome,
     width    |-> info.width,
     height   |-> info.height,
     dataSize |-> info.dataSize,
     m_error  |-> info.m_error,
     md5Hash  |-> IF info.outcome = "true" /\ match.found THEN match.value
                  ELSE <<>>]

\* the end of parseBinaryInfo, reached when the three fields are parsed:
\* the Content-MD5 value is searched and, when found, kept in the local
\* md5Hash, which nothing reads
parseMD5(info, match) ==
    [outcome  |-> info.outcome,
     width    |-> info.width,
     height   |-> info.height,
     dataSize |-> info.dataSize,
     m_error  |-> info.m_error,
     md5Hash  |-> IF info.outcome = "true" /\ match.found THEN match.value
                  ELSE <<>>]

\* parseBinaryInfo looking for the width under the label of the size
parseBinaryInfo_WidthFromSize(text, frame) ==
    parseMD5(parseFields(frame, parseField(text, SIZE_LABEL),
                         parseField(text, HEIGHT_LABEL),
                         parseField(text, SIZE_LABEL)),
             RegexLine(text, MD5_LABEL))

\* nanocbf::CBFFrame::parseBinaryInfo on the text between the section
\* markers: [outcome, width, height, dataSize, m_error], outcome being "true",
\* "false" or "throws" (std::stoi on a value that does not fit in int)
parseBinaryInfo(text, frame) ==
    parseMD5(parseFields(frame, parseField(text, WIDTH_LABEL),
                         parseField(text, HEIGHT_LABEL),
                         parseField(text, SIZE_LABEL)),
             RegexLine(text, MD5_LABEL))

\* the skip of read() left out: the header taken from right after the data_
\* line
skipLineEnds_None(text, p) == p

\* the position after the run of '\r' and '\n' that starts at p
RECURSIVE skipLineEnds(_, _)
skipLineEnds(text, p) ==
    IF p < Len(text) /\ text[p + 1] \in {13, 10}
    THEN skipLineEnds(text, p + 1)
    ELSE p

\* the local variables of read() that a run did not reach, and md5Hash of
\* parseBinaryInfo
NoLocals ==
    [arrayDataPos |-> NPOS, binaryStartPos |-> NPOS, binaryEndPos |-> NPOS,
     dataPos |-> NPOS, dataEndPos |-> NPOS, headerStartPos |-> NPOS,
     magicPos |-> NPOS, binaryDataStart |-> NPOS, dataSize |-> NPOS,
     fileSize |-> NPOS, md5Hash |-> <<>>]

\* m_error = msg; return false;
readFail(frame, msg, l) ==
    [outcome |-> "false", frame |-> [frame EXCEPT !.m_error = msg], loc |-> l]

\* the bounds check of read() with >= for >
readPayload_AtLeast(fileData, frame, l) ==
    IF l.binaryDataStart + l.dataSize >= Len(fileData)
    THEN readFail(frame, ERR_TRUNCATED, l)
    ELSE [outcome |-> "true",
          frame   |-> [frame EXCEPT !.data =
                          decompressData(SubSeq(fileData,
                                                l.binaryDataStart + 1,
                                                l.binaryDataStart + l.dataSize),
                                         frame.width, frame.height)],
          loc     |-> l]

\* read() emptying m_error when it succeeds
readPayload_ClearsError(fileData, frame, l) ==
    IF l.binaryDataStart + l.dataSize > Len(fileData)
    THEN readFail(frame, ERR_TRUNCATED, l)
    ELSE [outcome |-> "true",
          frame   |-> [frame EXCEPT !.m_error = <<>>,
                                    !.data =
                          decompressData(SubSeq(fileData,
                                                l.binaryDataStart + 1,
                                                l.binaryDataStart + l.dataSize),
                                         frame.width, frame.height)],
          loc     |-> l]

\* read(): the bounds check, the copy of the payload and decompressData
readPayload(fileData, frame, l) ==
    IF l.binaryDataStart + l.dataSize > Len(fileData)
    THEN readFail(frame, ERR_TRUNCATED, l)
    ELSE [outcome |-> "true",
          frame   |-> [frame EXCEPT !.data =
                          decompressData(SubSeq(fileData,
                                                l.binaryDataStart + 1,
                                                l.binaryDataStart + l.dataSize),
                                         frame.width, frame.height)],
          loc     |-> l]

\* read() taking the payload from the magic number itself
readMagic_AtMagic(fileData, frame, l) ==
    IF l.magicPos = NPOS THEN readFail(frame, ERR_MAGIC, l)
    ELSE readPayload(fileData, frame,
                     [l EXCEPT !.binaryDataStart = l.magicPos])

\* read(): the test on the magic number searched from binaryStartPos
readMagic(fileData, frame, l) ==
    IF l.magicPos = NPOS THEN readFail(frame, ERR_MAGIC, l)
    ELSE readPayload(fileData, frame,
                     [l EXCEPT !.binaryDataStart = l.magicPos + Len(CBF_MAGIC)])

\* read(): what follows the call of parseBinaryInfo, whose result is info
readBinaryInfo(fileData, frame, l, info) ==
    IF info.outcome # "true"
    THEN [outcome |-> info.outcome,
          frame   |-> [frame EXCEPT !.width = info.width,
                                    !.height = info.height,
                                    !.m_error = info.m_error],
          loc     |-> l]
    ELSE readMagic(fileData,
                   [frame EXCEPT !.width = info.width, !.height = info.height],
                   [l EXCEPT !.dataSize = info.dataSize,
                             !.md5Hash = info.md5Hash,
                             !.magicPos = Find(fileData, CBF_MAGIC,
                                               l.binaryStartPos)])

\* read() taking the header one character short of the declaration
readHeader_OneShort(fileData, frame, l) ==
    readBinaryInfo(fileData,
                   [frame EXCEPT !.header =
                       Substr(fileData, l.headerStartPos,
                              l.arrayDataPos - l.headerStartPos - 1)],
                   l,
                   parseBinaryInfo(Substr(fileData, l.binaryStartPos,
                                          l.binaryEndPos - l.binaryStartPos),
                                   frame))

\* read(): header is assigned, the text between the markers is cut out and
\* handed to parseBinaryInfo
readHeader(fileData, frame, l) ==
    readBinaryInfo(fileData,
                   [frame EXCEPT !.header =
                       Substr(fileData, l.headerStartPos,
                              l.arrayDataPos - l.headerStartPos)],
                   l,
                   parseBinaryInfo(Substr(fileData, l.binaryStartPos,
                                          l.binaryEndPos - l.binaryStartPos),
                                   frame))

\* read(): the test on the end of the data_ line, and the skip of the line
\* ends after it
readDataLineEnd(fileData, frame, l) ==
    IF l.dataEndPos = NPOS THEN readFail(frame, ERR_DATA_LINE, l)
    ELSE readHeader(fileData, frame,
                    [l EXCEPT !.headerStartPos =
                        skipLineEnds(fileData, l.dataEndPos + 1)])

\* read(): the test on "data_", and the search of the end of its line
readDataLine(fileData, frame, l) ==
    IF l.dataPos = NPOS THEN readFail(frame, ERR_DATA, l)
    ELSE readDataLineEnd(fileData, frame,
                         [l EXCEPT !.dataEndPos =
                             Find(fileData, <<10>>, l.dataPos)])

\* read(): the test on the closing delimiter, and the search of "data_"
readSectionEnd(fileData, frame, l) ==
    IF l.binaryEndPos = NPOS THEN readFail(frame, ERR_SECTION_END, l)
    ELSE readDataLine(fileData, frame,
                      [l EXCEPT !.dataPos = Find(fileData, DATA_PREFIX, 0)])

\* the closing delimiter searched from the start of the file
readSectionStart_FromTop(fileData, frame, l) ==
    IF l.binaryStartPos = NPOS THEN readFail(frame, ERR_SECTION_START, l)
    ELSE readSectionEnd(fileData, frame,
                        [l EXCEPT !.binaryEndPos =
                            Find(fileData, SECTION_END, 0)])

\* read(): the test on the opening delimiter, and the search of the closing
\* one from it
readSectionStart(fileData, frame, l) ==
    IF l.binaryStartPos = NPOS THEN readFail(frame, ERR_SECTION_START, l)
    ELSE readSectionEnd(fileData, frame,
                        [l EXCEPT !.binaryEndPos =
                            Find(fileData, SECTION_END, l.binaryStartPos)])

\* read() going on without the test on "_array_data.data"
readArrayData_Unchecked(fileData, frame, l) ==
    readSectionStart(fileData, frame,
                     [l EXCEPT !.binaryStartPos =
                         Find(fileData, SECTION_START, l.arrayDataPos)])

\* read(): the test on "_array_data.data", and the search of the opening
\* delimiter from it
readArrayData(fileData, frame, l) ==
    IF l.arrayDataPos = NPOS THEN readFail(frame, ERR_ARRAY_DATA, l)
    ELSE readSectionStart(fileData, frame,
                          [l EXCEPT !.binaryStartPos =
                              Find(fileData, SECTION_START, l.arrayDataPos)])

\* nanocbf::CBFFrame::read on the bytes of an opened file: the frame it
\* leaves, the value it returns (outcome) and its local variables
readBytes(fileData, frame) ==
    readArrayData(fileData, frame,
                  [NoLocals EXCEPT !.fileSize = Len(fileData),
                                   !.arrayDataPos =
                                       Find(fileData, ARRAY_DATA_MARKER, 0)])

-----------------------------------------------------------------------------
(* A frame object, the files, and the calls made on them *)

\* the public fields and m_error of the frame object
Frame ==
    [header |-> header, data |-> data, width |-> width, height |-> height,
     m_error |-> m_error]

\* CBFFrame::CBFFrame()
NewFrame ==
    [header |-> <<>>, data |-> <<>>, width |-> 0, height |-> 0,
     m_error |-> <<>>]

\* the file names handed to read() and write()
TargetNames == {NAME_PLAIN, NAME_MARKER}

\* the value of disk[name] when no file of that name exists
NoFile == <<-1>>

\* the header texts a caller assigns
Headers ==
    {<<>>, HEADER_PLAIN, HEADER_BLANK_FIRST, HEADER_MARKER, HEADER_DECOY}

\* the data, width and height a caller assigns: the image of main.cpp, a
\* one-pixel image in the 32-bit tier, and frames write() has to judge
Images ==
    {[data |-> <<100, 200, 300, 400>>, width |-> 2, height |-> 2],
     [data |-> <<-32768>>, width |-> 1, height |-> 1],
     [data |-> <<1, 2>>, width |-> 3, height |-> 3],
     [data |-> <<5, 6>>, width |-> -1, height |-> -2],
     [data |-> <<>>, width |-> 2, height |-> 2],
     [data |-> <<7>>, width |-> 0, height |-> 1],
     [data |-> <<7>>, width |-> 1, height |-> 0]}

\* "data_x\n\n"
EXT_DATA_LINE ==
    <<100, 97, 116, 97, 95, 120, 10, 10>>

\* "# h\n"
EXT_HEADER ==
    <<35, 32, 104, 10>>

\* "_array_data.data\n;\n"
EXT_MARKER ==
    <<95, 97, 114, 114, 97, 121, 95, 100, 97, 116, 97, 46, 100, 97, 116, 97,
      10, 59, 10>>

\* the payload of the files read() finds that write() did not make: the
\* deltas 5 and -6
EXT_PAYLOAD == <<5, 250>>

\* a file that another program left for read(): p tells which of the parts
\* read() looks for it holds, where its closing delimiter stands and the
\* X-Binary-Size it declares for its payload of two bytes
ExternalFile(p) ==
    (IF p.dataLine THEN EXT_DATA_LINE ELSE <<>>)
      \o EXT_HEADER
      \o (IF p.marker THEN EXT_MARKER ELSE <<>>)
      \o (IF p.opening THEN SECTION_START \o <<10>> ELSE <<>>)
      \o SIZE_LABEL \o <<32>> \o decimal(p.size) \o <<10>>
      \o WIDTH_LABEL \o <<32>> \o decimal(2) \o <<10>>
      \o HEIGHT_LABEL \o <<32>> \o decimal(1) \o <<10>>
      \o (IF p.closing = "before" THEN SECTION_END \o <<10>> ELSE <<>>)
      \o (IF p.magic THEN CBF_MAGIC ELSE <<>>)
      \o EXT_PAYLOAD
      \o (IF p.closing = "after" THEN <<13, 10>> \o SECTION_END ELSE <<>>)

ExternalParts ==
    [dataLine : BOOLEAN, marker : BOOLEAN, opening : BOOLEAN,
     closing : {"none", "before", "after"}, magic : BOOLEAN, size : 1..3]

\* the files read() is handed that write() did not make, the empty file
\* among them
ExternalFiles == {<<>>} \cup {ExternalFile(p) : p \in ExternalParts}

\* per file name, where its file comes from
NoOrigin == [kind |-> "none", frame |-> NewFrame]

Init ==
    /\ header = NewFrame.header
    /\ data = NewFrame.data
    /\ width = NewFrame.width
    /\ height = NewFrame.height
    /\ m_error = NewFrame.m_error
    /\ disk = [n \in TargetNames |-> NoFile]
    /\ origin = [n \in TargetNames |-> NoOrigin]
    /\ op = "none"
    /\ ret = "none"
    /\ arg = <<>>
    /\ loc = NoLocals
    /\ pre = NewFrame
    /\ calls = 0
    /\ samples = <<>>
    /\ compressed = <<>>
    /\ expected = <<0, 0>>
    /\ decoded = <<>>
    /\ cpc = "start"
    /\ message = <<>>
    /\ md5Hash = <<>>
    /\ dpc = "start"
    /\ md5ctx = MD5_CTX
    /\ fed = 0
    /\ blocks = <<>>

\* the caller assigns the public fields of a frame it has not used yet
SetFrame ==
    /\ calls = 0
    /\ op = "none"
    /\ \E h \in Headers, img \in Images :
          /\ header' = h
          /\ data' = img.data
          /\ width' = img.width
          /\ height' = img.height
    /\ op' = "set"
    /\ UNCHANGED <<m_error, disk, origin, ret, arg, loc, pre, calls>>
    /\ UNCHANGED codecVars
    /\ UNCHANGED digestVars

\* another program leaves a file under one of the names, before the caller
\* does anything with the frame
PutFile ==
    /\ calls = 0
    /\ op = "none"
    /\ \E filename \in TargetNames, fileData \in ExternalFiles :
          /\ disk' = [disk EXCEPT ![filename] = fileData]
          /\ origin' = [origin EXCEPT ![filename] =
                           [kind |-> "external", frame |-> NewFrame]]
    /\ op' = "put"
    /\ UNCHANGED <<ret, arg, loc, pre, calls>>
    /\ UNCHANGED frameVars
    /\ UNCHANGED codecVars
    /\ UNCHANGED digestVars

\* bool CBFFrame::write(const std::string& filename) const; opens tells
\* whether the std::ofstream could be opened
Write ==
    /\ calls < MaxCalls
    /\ \E filename \in TargetNames, opens \in BOOLEAN :
          /\ arg' = filename
          /\ IF writeAccepts(Frame) /\ opens
             THEN /\ disk' = [disk EXCEPT ![filename] =
                                  writeBytes(filename, Frame)]
                  /\ origin' = [origin EXCEPT ![filename] =
                                   [kind |-> "written", frame |-> Frame]]
                  /\ ret' = "true"
             ELSE /\ ret' = "false"
                  /\ UNCHANGED <<disk, origin>>
    /\ op' = "write"
    /\ pre' = Frame
    /\ loc' = NoLocals
    /\ calls' = calls + 1
    /\ UNCHANGED frameVars
    /\ UNCHANGED codecVars
    /\ UNCHANGED digestVars

\* what read(filename) leaves and returns: the failure to open the file, or
\* the scan of its bytes
readResult(filename) ==
    IF disk[filename] = NoFile
    THEN [outcome |-> "false",
          frame   |-> [Frame EXCEPT !.m_error = ERR_OPEN \o filename],
          loc     |-> NoLocals]
    ELSE readBytes(disk[filename], Frame)

\* bool CBFFrame::read(const std::string& filename)
Read ==
    /\ calls < MaxCalls
    /\ \E filename \in TargetNames :
          /\ arg' = filename
          /\ \E r \in {readResult(filename)} :
                /\ header' = r.frame.header
                /\ data' = r.frame.data
                /\ width' = r.frame.width
                /\ height' = r.frame.height
                /\ m_error' = r.frame.m_error
                /\ ret' = r.outcome
                /\ loc' = r.loc
    /\ op' = "read"
    /\ pre' = Frame
    /\ calls' = calls + 1
    /\ UNCHANGED <<disk, origin>>
    /\ UNCHANGED codecVars
    /\ UNCHANGED digestVars

\* the caller goes on with a frame object fresh from the constructor
Construct ==
    /\ op \in {"write", "read"}
    /\ calls < MaxCalls
    /\ header' = NewFrame.header
    /\ data' = NewFrame.data
    /\ width' = NewFrame.width
    /\ height' = NewFrame.height
    /\ m_error' = NewFrame.m_error
    /\ op' = "new"
    /\ UNCHANGED <<disk, origin, ret, arg, loc, pre, calls>>
    /\ UNCHANGED codecVars
    /\ UNCHANGED digestVars

Next == SetFrame \/ PutFile \/ Write \/ Read \/ Construct

Spec == Init /\ [][Next]_vars

-----------------------------------------------------------------------------
(* The codec on its own: compressData, then decompressData *)

\* sample values on both sides of every tier boundary, and the int32_t
\* extremes, whose differences wrap
SampleValues ==
    {0, 1, -1, 127, -127, 128, -128, 32767, -32767, 32768, -32768,
     INT32_MAX, INT32_MIN}

SampleSeqs == UNION {[1..n -> SampleValues] : n \in 0..MaxSamples}

CodecInit ==
    /\ samples \in SampleSeqs
    /\ compressed = <<>>
    /\ expected = <<0, 0>>
    /\ decoded = <<>>
    /\ cpc = "start"
    /\ message = <<>>
    /\ md5Hash = <<>>
    /\ dpc = "start"
    /\ md5ctx = MD5_CTX
    /\ fed = 0
    /\ blocks = <<>>
    /\ header = NewFrame.header
    /\ data = NewFrame.data
    /\ width = NewFrame.width
    /\ height = NewFrame.height
    /\ m_error = NewFrame.m_error
    /\ disk = [n \in TargetNames |-> NoFile]
    /\ origin = [n \in TargetNames |-> NoOrigin]
    /\ op = "none"
    /\ ret = "none"
    /\ arg = <<>>
    /\ loc = NoLocals
    /\ pre = NewFrame
    /\ calls = 0

Compress ==
    /\ cpc = "start"
    /\ compressed' = compressData(samples)
    /\ cpc' = "compressed"
    /\ UNCHANGED <<samples, expected, decoded>>
    /\ UNCHANGED <<frameVars, fileVars>>
    /\ UNCHANGED digestVars

Decompress ==
    /\ cpc = "compressed"
    /\ \E w \in 0..MaxSamples, h \in 0..MaxSamples :
          /\ w * h = Len(samples)
          /\ expected' = <<w, h>>
          /\ decoded' = decompressData(compressed, w, h)
    /\ cpc' = "decoded"
    /\ UNCHANGED <<samples, compressed>>
    /\ UNCHANGED <<frameVars, fileVars>>
    /\ UNCHANGED digestVars

CodecNext == Compress \/ Decompress

CodecSpec == CodecInit /\ [][CodecNext]_vars

-----------------------------------------------------------------------------
(* C1: decompressData(compressData(S)) with width*height = len(S) returns  *)
(* exactly S, also when a difference of consecutive samples wraps.         *)
C1_CodecRoundTrip ==
    cpc = "decoded" => decoded = samples

\* a round trip whose second delta, INT32_MIN - INT32_MAX, does not fit
C1_Witness ==
    /\ cpc = "decoded"
    /\ samples = <<INT32_MAX, INT32_MIN>>
    /\ compressed = <<128, 0, 128, 255, 255, 255, 127, 1>>
    /\ decoded = samples

-----------------------------------------------------------------------------
\* the delta of sample i: its difference from the sample before it (from 0
\* for the first), in int32_t
DeltaOf(S, i) == Sub32(S[i], IF i = 1 THEN 0 ELSE S[i - 1])

\* the bytes the format prescribes for a delta d
TierBytes(d) ==
    IF -127 <= d /\ d <= 127
    THEN <<d % 256>>
    ELSE IF -32767 <= d /\ d <= 32767
    THEN <<128, d % 256, (d \div 256) % 256>>
    ELSE <<128, 0, 128, d % 256, (d \div 256) % 256,
           (d \div 65536) % 256, (d \div 16777216) % 256>>

RECURSIVE TierStream(_, _)
TierStream(S, i) ==
    IF i > Len(S) THEN <<>> ELSE TierBytes(DeltaOf(S, i)) \o TierStream(S, i + 1)

\* the number of bytes a one-sample sequence <<d>> (delta d) compresses to
OneSampleIs(d, n) ==
    (Len(samples) = 1 /\ samples[1] = d) => Len(compressed) = n

(* C2: a delta in -127..127 is emitted as 1 byte, a delta in               *)
(* -32767..32767 outside that as 0x80 and 16 bits little-endian, every     *)
(* other delta as 0x80 0x00 0x80 and 32 bits little-endian; 127 and -127   *)
(* take 1 byte, 128, -128, 32767, -32767 take 3, -32768, 32768 and 2^31-1  *)
(* take 7.                                                                 *)
C2_TierSelection ==
    cpc # "start" =>
        /\ compressed = TierStream(samples, 1)
        /\ OneSampleIs(127, 1) /\ OneSampleIs(-127, 1)
        /\ OneSampleIs(128, 3) /\ OneSampleIs(-128, 3)
        /\ OneSampleIs(32767, 3) /\ OneSampleIs(-32767, 3)
        /\ OneSampleIs(-32768, 7) /\ OneSampleIs(32768, 7)
        /\ OneSampleIs(INT32_MAX, 7)

\* the deltas -128 and -32640 in the 16-bit tier, then 32768 in the 32-bit tier
C2_Witness ==
    /\ cpc = "compressed"
    /\ samples = <<-128, -32768, 0>>
    /\ compressed = <<128, 128, 255, 128, 128, 128, 128, 0, 128, 0, 128, 0, 0>>

-----------------------------------------------------------------------------
(* Files written by write() and read back *)

\* the last call was a read() of a file that write() made
ReadOfWritten == op = "read" /\ origin[arg].kind = "written"

\* the frame that file was written from
Written == origin[arg].frame

\* whether text holds the characters "_array_data.data"
HoldsMarker(text) == Find(text, ARRAY_DATA_MARKER, 0) # NPOS

\* width > 0, height > 0 and as many samples as width * height
WellFormed(f) ==
    f.width > 0 /\ f.height > 0 /\ Len(f.data) = f.width * f.height

\* read() succeeded with the width, height and samples of frame f
SameImage(f) ==
    ret = "true" /\ width = f.width /\ height = f.height /\ data = f.data

-----------------------------------------------------------------------------
-----------------------------------------------------------------------------
\* the position in a file after the data_ line and the blank line under it
AfterDataLine(fileData) ==
    Find(fileData, <<13, 10, 13, 10>>, Find(fileData, DATA_PREFIX, 0)) + 4

\* the default block stands in the file between the data_ line and the
\* array-data declaration
DefaultBlockInFile(fileData) ==
    MatchAt(fileData, DEFAULT_HEADER \o ARRAY_DATA_MARKER,
            AfterDataLine(fileData))

-----------------------------------------------------------------------------
(* C6: read returns a truncation error whenever the payload decodes to     *)
(* fewer than width*height samples: every read that returns success leaves *)
(* data.size() = width*height.                                             *)
C6_ShortDecodeIsError ==
    (op = "read" /\ ret = "true") => Len(data) = width * height

-----------------------------------------------------------------------------
(* C7: whenever data is empty, or width is not > 0, or height is not > 0,  *)
(* write returns failure and does not create or modify the target file.    *)
C7_WriteRejectsInvalid ==
    [][(/\ op' = "write"
        /\ calls' = calls + 1
        /\ (data = <<>> \/ width <= 0 \/ height <= 0))
          => (ret' = "false" /\ disk' = disk)]_vars

-----------------------------------------------------------------------------
\* read() came to its bounds check: it found the magic number
ReachedBoundsCheck == loc.binaryDataStart # NPOS

(* C8: read fails with the truncation error exactly when the offset of the *)
(* first byte after the magic number plus the parsed X-Binary-Size is      *)
(* greater than the length of the buffer; when the buffer holds that many  *)
(* bytes the check does not fail the read.                                 *)
C8_TruncationCheck ==
    (op = "read" /\ disk[arg] # NoFile) =>
        /\ (ret = "false" /\ m_error = ERR_TRUNCATED)
              <=> (/\ ReachedBoundsCheck
                   /\ loc.binaryDataStart + loc.dataSize > Len(disk[arg]))
        /\ ReachedBoundsCheck =>
              /\ MatchAt(disk[arg], CBF_MAGIC,
                         loc.binaryDataStart - Len(CBF_MAGIC))
              /\ loc.dataSize =
                    stoi(RegexField(SubSeq(disk[arg], loc.binaryStartPos + 1,
                                           Len(disk[arg])),
                                    SIZE_LABEL).digits).value
              /\ loc.binaryDataStart + loc.dataSize <= Len(disk[arg])
                    => ret = "true"

\* a file that declares one byte more than it holds after the magic number
C8_Witness ==
    /\ op = "read"
    /\ ret = "false"
    /\ m_error = ERR_TRUNCATED
    /\ loc.binaryDataStart + loc.dataSize = Len(disk[arg]) + 1

-----------------------------------------------------------------------------
(* C9: for every buffer that does not hold the text "_array_data.data",    *)
(* whatever else it holds, read returns failure with a format error        *)
(* message set, and does not return success with an empty frame.           *)
C9_MissingArrayData ==
    (op = "read" /\ disk[arg] # NoFile /\ ~HoldsMarker(disk[arg]))
        => (/\ ret = "false"
            /\ m_error = ERR_ARRAY_DATA
            /\ m_error # <<>>)

\* a file with the data_ line, both delimiters, the fields, the magic number
\* and the payload, but no declaration
C9_Witness ==
    /\ op = "read"
    /\ disk[arg] # NoFile
    /\ ~HoldsMarker(disk[arg])
    /\ Find(disk[arg], DATA_PREFIX, 0) # NPOS
    /\ Find(disk[arg], SECTION_END, 0) # NPOS
    /\ Find(disk[arg], CBF_MAGIC, 0) # NPOS
    /\ ret = "false"
    /\ m_error = ERR_ARRAY_DATA

-----------------------------------------------------------------------------
\* "###CBF: VERSION 1.5 generated by nanocbf\r\ndata_", what every file
\* begins with
LAYOUT_FIRST_LINES == PREFIX_VERSION

\* "X-Binary-Size-Padding: 4095\r\n\r\n", the end of the metadata block
LAYOUT_LAST_LINE == SubSeq(SECTION_AFTER_HEIGHT, 3, Len(SECTION_AFTER_HEIGHT))

\* the trailer: 4095 zero bytes, CRLF, the closing delimiter, the terminator
\* line and a blank line
LAYOUT_TRAILER ==
    [j \in 1..4095 |-> 0] \o <<13, 10>> \o SECTION_END
      \o <<13, 10, 59, 13, 10, 13, 10>>

\* the position in a file where the header text starts: after the first
\* blank line
HeaderAt(fileData) == Find(fileData, <<13, 10, 13, 10>>, 0) + 4

\* the header text write() emits for frame f
HeaderOf(f) == IF f.header = <<>> THEN DEFAULT_HEADER ELSE f.header

\* the position in the file after the metadata block of the declaration at
\* secAt
MetaEnd(fileData, secAt) ==
    Find(fileData, LAYOUT_LAST_LINE, secAt) + Len(LAYOUT_LAST_LINE)

\* a file is laid out for frame f, whose declaration stands at secAt, whose
\* metadata block ends at metaEnd and whose payload has payLen bytes
LaidOut(fileData, f, secAt, metaEnd, payLen) ==
    /\ MatchAt(fileData, LAYOUT_FIRST_LINES, 0)
    /\ MatchAt(fileData, HeaderOf(f), HeaderAt(fileData))
    /\ MatchAt(fileData, ARRAY_DATA_MARKER, secAt)
    /\ MatchAt(fileData, CBF_MAGIC, metaEnd)
    /\ payLen >= 0
    /\ SubSeq(fileData, metaEnd + 5, metaEnd + 4 + payLen) = compressData(f.data)
    /\ RegexField(SubSeq(fileData, secAt + 1, metaEnd), SIZE_LABEL).found
    /\ RegexField(SubSeq(fileData, secAt + 1, metaEnd), SIZE_LABEL).digits
          = decimal(payLen)
    /\ SubSeq(fileData, metaEnd + 5 + payLen, Len(fileData)) = LAYOUT_TRAILER

(* C10: the file write produces is, in this order, the prefix lines, the   *)
(* user header verbatim (or the default header), the array-data            *)
(* declaration with its metadata block, the magic bytes 0C 1A 04 D5, the   *)
(* compressed payload and the fixed trailer (4095 zero bytes, CRLF,        *)
(* closing delimiter, terminator line, blank line); the X-Binary-Size      *)
(* written equals the number of payload bytes between the magic and the    *)
(* trailer, and the trailer is the same for every frame.                   *)
C10_Layout ==
    (op = "write" /\ ret = "true") =>
        LaidOut(disk[arg], pre,
                HeaderAt(disk[arg]) + Len(HeaderOf(pre)),
                MetaEnd(disk[arg], HeaderAt(disk[arg]) + Len(HeaderOf(pre))),
                Len(disk[arg]) - Len(LAYOUT_TRAILER)
                  - MetaEnd(disk[arg],
                            HeaderAt(disk[arg]) + Len(HeaderOf(pre))) - 4)

\* the file of main.cpp's image under a header of its own: four payload
\* bytes before the trailer
C10_Witness ==
    /\ op = "write"
    /\ ret = "true"
    /\ pre.header = HEADER_PLAIN
    /\ pre.data = <<100, 200, 300, 400>>
    /\ Len(disk[arg]) > Len(LAYOUT_TRAILER)
    /\ SubSeq(disk[arg], Len(disk[arg]) - Len(LAYOUT_TRAILER) - 7,
              Len(disk[arg]) - Len(LAYOUT_TRAILER))
          = <<12, 26, 4, 213, 100, 100, 100, 100>>

-----------------------------------------------------------------------------
(* The digest on its own: generateMD5 of nanocbf::CBFFrame and of the      *)
(* CbfFrame of cbfframe_simple, whose text each generateArrayDataSection   *)
(* streams after "Content-MD5: "                                           *)

\* "0123456789abcdef", the digits of std::hex
HEX_CHARS ==
    <<48, 49, 50, 51, 52, 53, 54, 55, 56, 57, 97, 98, 99, 100, 101, 102>>

\* hash * 31 + byte in size_t (64 bits): hash is four 16-bit limbs, the
\* lowest first, and carry is the byte, then the carry out of each limb
RECURSIVE hashLimbs(_, _, _)
hashLimbs(hash, i, carry) ==
    IF i > 4
    THEN <<>>
    ELSE <<(hash[i] * 31 + carry) % 65536>>
           \o hashLimbs(hash, i + 1, (hash[i] * 31 + carry) \div 65536)

\* the loop of CbfFrame::generateMD5 from byte i on
RECURSIVE hashLoop(_, _, _)
hashLoop(bytes, i, hash) ==
    IF i > Len(bytes) \/ Len(hash) # 4
    THEN hash
    ELSE hashLoop(bytes, i + 1, hashLimbs(hash, 1, bytes[i]))

\* the four hexadecimal digits of a limb
limbHex(l) ==
    <<HEX_CHARS[(l \div 4096) + 1], HEX_CHARS[((l \div 256) % 16) + 1],
      HEX_CHARS[((l \div 16) % 16) + 1], HEX_CHARS[(l % 16) + 1]>>

\* operator<< under std::hex: no leading zeros, "0" for zero
RECURSIVE stripZeros(_)
stripZeros(digits) ==
    IF Len(digits) > 1 /\ digits[1] = 48
    THEN stripZeros(Tail(digits))
    ELSE digits

hexOf(hash) ==
    stripZeros(limbHex(hash[4]) \o limbHex(hash[3])
                 \o limbHex(hash[2]) \o limbHex(hash[1]))

\* CbfFrame::generateMD5 of cbfframe_simple
CbfFrame_generateMD5(bytes) == hexOf(hashLoop(bytes, 1, <<0, 0, 0, 0>>))

\* messages with their MD5 digests in base64: the test suite of RFC 1321
\* (A.5), the payloads of the frames and files above, messages of 55 to 65
\* bytes (byte i, from 0, being (7 * i + length) % 256), and every message
\* of one to three bytes over 0, 128 and 255
MD5_TEST_SUITE ==
    <<[message |->
         <<>>,
      base64 |->
         <<49, 66, 50, 77, 50, 89, 56, 65, 115, 103, 84, 112, 103, 65, 109,
           89, 55, 80, 104, 67, 102, 103, 61, 61>>],
      [message |->
         <<97>>,
      base64 |->
         <<68, 77, 70, 49, 117, 99, 68, 120, 116, 113, 103, 120, 119, 53, 110,
           105, 97, 88, 99, 109, 89, 81, 61, 61>>],
      [message |->
         <<97, 98, 99>>,
      base64 |->
         <<107, 65, 70, 81, 109, 68, 122, 83, 84, 55, 68, 87, 108, 106, 57,
           57, 75, 79, 70, 47, 99, 103, 61, 61>>],
      [message |->
         <<109, 101, 115, 115, 97, 103, 101, 32, 100, 105, 103, 101, 115,
           116>>,
      base64 |->
         <<43, 87, 116, 112, 102, 88, 121, 51, 107, 52, 49, 83, 87, 105, 56,
           120, 113, 118, 70, 104, 48, 65, 61, 61>>],
      [message |->
         <<97, 98, 99, 100, 101, 102, 103, 104, 105, 106, 107, 108, 109, 110,
           111, 112, 113, 114, 115, 116, 117, 118, 119, 120, 121, 122>>,
      base64 |->
         <<119, 47, 122, 84, 49, 50, 71, 83, 53, 65, 66, 57, 43, 48, 108, 115,
           121, 109, 102, 104, 79, 119, 61, 61>>],
      [message |->
         <<65, 66, 67, 68, 69, 70, 71, 72, 73, 74, 75, 76, 77, 78, 79, 80, 81,
           82, 83, 84, 85, 86, 87, 88, 89, 90, 97, 98, 99, 100, 101, 102, 103,
           104, 105, 106, 107, 108, 109, 110, 111, 112, 113, 114, 115, 116,
           117, 118, 119, 120, 121, 122, 48, 49, 50, 51, 52, 53, 54, 55, 56,
           57>>,
      base64 |->
         <<48, 88, 83, 114, 109, 78, 74, 51, 50, 102, 87, 108, 89, 82, 119,
           115, 110, 48, 71, 100, 110, 119, 61, 61>>],
      [message |->
         <<49, 50, 51, 52, 53, 54, 55, 56, 57, 48, 49, 50, 51, 52, 53, 54, 55,
           56, 57, 48, 49, 50, 51, 52, 53, 54, 55, 56, 57, 48, 49, 50, 51, 52,
           53, 54, 55, 56, 57, 48, 49, 50, 51, 52, 53, 54, 55, 56, 57, 48, 49,
           50, 51, 52, 53, 54, 55, 56, 57, 48, 49, 50, 51, 52, 53, 54, 55, 56,
           57, 48, 49, 50, 51, 52, 53, 54, 55, 56, 57, 48>>,
      base64 |->
         <<86, 43, 51, 48, 111, 105, 118, 106, 121, 86, 87, 115, 83, 100, 111,
           117, 73, 81, 101, 50, 101, 103, 61, 61>>],
      [message |->
         <<100, 100, 100, 100>>,
      base64 |->
         <<69, 100, 50, 54, 56, 122, 104, 113, 54, 104, 56, 112, 100, 79, 55,
           112, 104, 70, 81, 104, 85, 103, 61, 61>>],
      [message |->
         <<128, 0, 128, 0, 128, 255, 255>>,
      base64 |->
         <<105, 109, 51, 75, 67, 51, 116, 115, 121, 122, 104, 52, 71, 104, 55,
           102, 110, 90, 98, 71, 106, 81, 61, 61>>],
      [message |->
         <<1, 1>>,
      base64 |->
         <<74, 74, 117, 109, 74, 51, 100, 89, 66, 81, 97, 86, 54, 80, 87, 81,
           109, 54, 122, 87, 48, 119, 61, 61>>],
      [message |->
         <<5, 1>>,
      base64 |->
         <<56, 119, 81, 80, 121, 121, 100, 78, 86, 121, 107, 122, 114, 76, 54,
           104, 84, 88, 69, 77, 69, 103, 61, 61>>],
      [message |->
         <<7>>,
      base64 |->
         <<105, 101, 100, 79, 90, 65, 117, 77, 82, 105, 86, 54, 75, 100, 52,
           71, 70, 110, 108, 78, 88, 81, 61, 61>>],
      [message |->
         <<5, 250>>,
      base64 |->
         <<102, 99, 69, 118, 99, 79, 66, 48, 86, 47, 110, 97, 48, 56, 77, 112,
           110, 75, 87, 72, 99, 81, 61, 61>>],
      [message |->
         <<55, 62, 69, 76, 83, 90, 97, 104, 111, 118, 125, 132, 139, 146, 153,
           160, 167, 174, 181, 188, 195, 202, 209, 216, 223, 230, 237, 244,
           251, 2, 9, 16, 23, 30, 37, 44, 51, 58, 65, 72, 79, 86, 93, 100,
           107, 114, 121, 128, 135, 142, 149, 156, 163, 170, 177>>,
      base64 |->
         <<56, 83, 105, 88, 77, 105, 85, 49, 71, 72, 85, 79, 73, 114, 89, 113,
           86, 120, 111, 88, 83, 65, 61, 61>>],
      [message |->
         <<56, 63, 70, 77, 84, 91, 98, 105, 112, 119, 126, 133, 140, 147, 154,
           161, 168, 175, 182, 189, 196, 203, 210, 217, 224, 231, 238, 245,
           252, 3, 10, 17, 24, 31, 38, 45, 52, 59, 66, 73, 80, 87, 94, 101,
           108, 115, 122, 129, 136, 143, 150, 157, 164, 171, 178, 185>>,
      base64 |->
         <<70, 53, 52, 55, 110, 54, 74, 121, 111, 106, 52, 113, 105, 122, 75,
           57, 52, 81, 70, 85, 70, 65, 61, 61>>],
      [message |->
         <<57, 64, 71, 78, 85, 92, 99, 106, 113, 120, 127, 134, 141, 148, 155,
           162, 169, 176, 183, 190, 197, 204, 211, 218, 225, 232, 239, 246,
           253, 4, 11, 18, 25, 32, 39, 46, 53, 60, 67, 74, 81, 88, 95, 102,
           109, 116, 123, 130, 137, 144, 151, 158, 165, 172, 179, 186, 193>>,
      base64 |->
         <<49, 102, 67, 108, 109, 113, 110, 87, 50, 66, 90, 78, 78, 49, 84,
           55, 107, 102, 90, 52, 67, 81, 61, 61>>],
      [message |->
         <<63, 70, 77, 84, 91, 98, 105, 112, 119, 126, 133, 140, 147, 154,
           161, 168, 175, 182, 189, 196, 203, 210, 217, 224, 231, 238, 245,
           252, 3, 10, 17, 24, 31, 38, 45, 52, 59, 66, 73, 80, 87, 94, 101,
           108, 115, 122, 129, 136, 143, 150, 157, 164, 171, 178, 185, 192,
           199, 206, 213, 220, 227, 234, 241>>,
      base64 |->
         <<51, 88, 104, 90, 82, 100, 72, 87, 117, 72, 55, 75, 68, 83, 100,
           116, 117, 52, 100, 87, 47, 81, 61, 61>>],
      [message |->
         <<64, 71, 78, 85, 92, 99, 106, 113, 120, 127, 134, 141, 148, 155,
           162, 169, 176, 183, 190, 197, 204, 211, 218, 225, 232, 239, 246,
           253, 4, 11, 18, 25, 32, 39, 46, 53, 60, 67, 74, 81, 88, 95, 102,
           109, 116, 123, 130, 137, 144, 151, 158, 165, 172, 179, 186, 193,
           200, 207, 214, 221, 228, 235, 242, 249>>,
      base64 |->
         <<52, 54, 115, 53, 84, 79, 84, 114, 102, 97, 65, 103, 111, 110, 48,
           117, 74, 69, 77, 85, 80, 65, 61, 61>>],
      [message |->
         <<65, 72, 79, 86, 93, 100, 107, 114, 121, 128, 135, 142, 149, 156,
           163, 170, 177, 184, 191, 198, 205, 212, 219, 226, 233, 240, 247,
           254, 5, 12, 19, 26, 33, 40, 47, 54, 61, 68, 75, 82, 89, 96, 103,
           110, 117, 124, 131, 138, 145, 152, 159, 166, 173, 180, 187, 194,
           201, 208, 215, 222, 229, 236, 243, 250, 1>>,
      base64 |->
         <<75, 75, 97, 119, 43, 82, 106, 90, 114, 113, 65, 43, 108, 53, 111,
           87, 86, 57, 106, 81, 57, 103, 61, 61>>],
      [message |->
         <<0>>,
      base64 |->
         <<107, 55, 105, 70, 114, 102, 52, 78, 111, 73, 110, 78, 57, 106, 83,
           81, 84, 57, 87, 102, 99, 81, 61, 61>>],
      [message |->
         <<128>>,
      base64 |->
         <<106, 84, 110, 100, 102, 117, 56, 82, 88, 113, 97, 88, 86, 69, 98,
           118, 81, 73, 75, 86, 72, 119, 61, 61>>],
      [message |->
         <<255>>,
      base64 |->
         <<65, 70, 108, 80, 49, 80, 81, 114, 112, 68, 47, 66, 121, 103, 81,
           110, 111, 70, 100, 105, 108, 81, 61, 61>>],
      [message |->
         <<0, 0>>,
      base64 |->
         <<120, 66, 65, 47, 69, 105, 48, 110, 90, 51, 121, 100, 115, 85, 84,
           75, 52, 84, 108, 75, 90, 103, 61, 61>>],
      [message |->
         <<0, 128>>,
      base64 |->
         <<56, 106, 73, 71, 114, 71, 70, 86, 106, 56, 79, 49, 111, 104, 73,
           111, 90, 97, 52, 72, 99, 65, 61, 61>>],
      [message |->
         <<0, 255>>,
      base64 |->
         <<48, 72, 48, 48, 55, 54, 120, 106, 75, 65, 66, 54, 49, 110, 120, 43,
           67, 112, 104, 101, 65, 65, 61, 61>>],
      [message |->
         <<128, 0>>,
      base64 |->
         <<47, 71, 67, 98, 81, 56, 117, 70, 108, 97, 109, 111, 77, 115, 118,
           67, 87, 82, 55, 89, 79, 103, 61, 61>>],
      [message |->
         <<128, 128>>,
      base64 |->
         <<97, 73, 55, 73, 107, 43, 107, 122, 114, 47, 99, 107, 103, 70, 49,
           104, 84, 107, 80, 50, 106, 103, 61, 61>>],
      [message |->
         <<128, 255>>,
      base64 |->
         <<52, 105, 82, 89, 67, 113, 90, 86, 101, 82, 77, 76, 110, 113, 99,
           118, 53, 109, 117, 55, 78, 65, 61, 61>>],
      [message |->
         <<255, 0>>,
      base64 |->
         <<52, 79, 105, 47, 114, 55, 115, 71, 105, 86, 89, 55, 76, 55, 112,
           52, 110, 74, 101, 122, 122, 65, 61, 61>>],
      [message |->
         <<255, 128>>,
      base64 |->
         <<105, 110, 76, 114, 66, 79, 74, 117, 69, 114, 53, 89, 57, 100, 55,
           104, 53, 83, 103, 79, 47, 81, 61, 61>>],
      [message |->
         <<255, 255>>,
      base64 |->
         <<113, 121, 111, 78, 75, 78, 53, 114, 100, 47, 47, 100, 98, 72, 75,
           118, 54, 116, 67, 90, 113, 119, 61, 61>>],
      [message |->
         <<0, 0, 0>>,
      base64 |->
         <<97, 84, 54, 97, 43, 69, 48, 57, 47, 77, 99, 101, 90, 65, 52, 65,
           87, 57, 120, 101, 76, 103, 61, 61>>],
      [message |->
         <<0, 0, 128>>,
      base64 |->
         <<55, 121, 68, 99, 77, 74, 86, 57, 106, 70, 103, 82, 89, 57, 116,
           117, 47, 105, 79, 56, 49, 81, 61, 61>>],
      [message |->
         <<0, 0, 255>>,
      base64 |->
         <<88, 81, 57, 51, 102, 53, 66, 80, 112, 115, 78, 102, 65, 67, 69, 99,
           65, 86, 115, 101, 73, 65, 61, 61>>],
      [message |->
         <<0, 128, 0>>,
      base64 |->
         <<78, 69, 51, 47, 120, 89, 50, 72, 99, 68, 78, 82, 102, 78, 114, 71,
           55, 105, 43, 79, 113, 65, 61, 61>>],
      [message |->
         <<0, 128, 128>>,
      base64 |->
         <<49, 105, 65, 79, 88, 99, 117, 111, 66, 99, 98, 49, 57, 79, 97, 68,
           115, 50, 81, 84, 79, 65, 61, 61>>],
      [message |->
         <<0, 128, 255>>,
      base64 |->
         <<55, 97, 111, 68, 107, 76, 73, 113, 117, 73, 115, 103, 107, 121, 43,
           110, 112, 101, 65, 90, 47, 119, 61, 61>>],
      [message |->
         <<0, 255, 0>>,
      base64 |->
         <<115, 114, 73, 51, 111, 98, 118, 90, 120, 88, 117, 84, 117, 86, 76,
           67, 84, 110, 107, 50, 113, 65, 61, 61>>],
      [message |->
         <<0, 255, 128>>,
      base64 |->
         <<84, 57, 90, 77, 117, 65, 119, 47, 104, 117, 72, 112, 48, 80, 86,
           90, 114, 52, 115, 51, 68, 119, 61, 61>>],
      [message |->
         <<0, 255, 255>>,
      base64 |->
         <<98, 113, 115, 107, 109, 70, 83, 72, 115, 78, 88, 97, 120, 50, 70,
           71, 106, 82, 120, 97, 98, 65, 61, 61>>],
      [message |->
         <<128, 0, 0>>,
      base64 |->
         <<49, 76, 97, 73, 84, 54, 82, 75, 78, 109, 82, 48, 80, 108, 106, 121,
           76, 80, 65, 102, 43, 119, 61, 61>>],
      [message |->
         <<128, 0, 128>>,
      base64 |->
         <<102, 104, 100, 116, 68, 99, 66, 54, 114, 111, 81, 55, 118, 113,
           103, 75, 52, 53, 70, 109, 43, 103, 61, 61>>],
      [message |->
         <<128, 0, 255>>,
      base64 |->
         <<98, 78, 101, 47, 106, 101, 100, 88, 121, 79, 121, 99, 108, 47, 81,
           43, 100, 113, 89, 99, 105, 81, 61, 61>>],
      [message |->
         <<128, 128, 0>>,
      base64 |->
         <<68, 113, 100, 85, 111, 78, 110, 102, 109, 50, 120, 52, 77, 90, 116,
           66, 111, 102, 56, 66, 65, 119, 61, 61>>],
      [message |->
         <<128, 128, 128>>,
      base64 |->
         <<75, 108, 118, 89, 53, 109, 101, 48, 112, 55, 47, 65, 54, 84, 66,
           51, 110, 80, 57, 90, 80, 81, 61, 61>>],
      [message |->
         <<128, 128, 255>>,
      base64 |->
         <<65, 113, 80, 81, 67, 78, 67, 49, 76, 48, 56, 114, 118, 100, 69, 99,
           112, 113, 104, 79, 118, 119, 61, 61>>],
      [message |->
         <<128, 255, 0>>,
      base64 |->
         <<82, 116, 105, 107, 74, 85, 90, 104, 70, 98, 117, 98, 83, 54, 108,
           117, 90, 90, 54, 57, 119, 81, 61, 61>>],
      [message |->
         <<128, 255, 128>>,
      base64 |->
         <<80, 56, 111, 110, 99, 107, 117, 103, 48, 52, 71, 79, 106, 50, 102,
           109, 110, 110, 120, 117, 57, 103, 61, 61>>],
      [message |->
         <<128, 255, 255>>,
      base64 |->
         <<108, 66, 114, 104, 86, 66, 79, 117, 118, 114, 65, 54, 97, 119, 52,
           76, 114, 97, 118, 82, 79, 103, 61, 61>>],
      [message |->
         <<255, 0, 0>>,
      base64 |->
         <<103, 99, 75, 116, 48, 66, 79, 109, 43, 67, 49, 97, 78, 78, 107, 52,
           75, 81, 48, 80, 70, 81, 61, 61>>],
      [message |->
         <<255, 0, 128>>,
      base64 |->
         <<89, 77, 51, 77, 49, 65, 65, 70, 103, 75, 80, 68, 108, 76, 105, 116,
           98, 113, 109, 52, 109, 81, 61, 61>>],
      [message |->
         <<255, 0, 255>>,
      base64 |->
         <<73, 85, 106, 108, 52, 81, 75, 48, 74, 79, 47, 66, 72, 65, 84, 48,
           116, 100, 106, 78, 100, 103, 61, 61>>],
      [message |->
         <<255, 128, 0>>,
      base64 |->
         <<72, 68, 51, 108, 112, 102, 43, 73, 89, 56, 98, 74, 99, 120, 115,
           71, 48, 88, 65, 117, 69, 65, 61, 61>>],
      [message |->
         <<255, 128, 128>>,
      base64 |->
         <<86, 84, 107, 82, 48, 47, 51, 56, 79, 115, 69, 81, 98, 57, 81, 89,
           68, 49, 52, 84, 108, 81, 61, 61>>],
      [message |->
         <<255, 128, 255>>,
      base64 |->
         <<66, 88, 84, 48, 73, 99, 66, 119, 102, 50, 54, 84, 118, 87, 77, 83,
           109, 70, 73, 73, 98, 119, 61, 61>>],
      [message |->
         <<255, 255, 0>>,
      base64 |->
         <<110, 49, 70, 68, 75, 48, 120, 72, 48, 85, 81, 68, 109, 52, 74, 90,
           86, 107, 117, 52, 109, 119, 61, 61>>],
      [message |->
         <<255, 255, 128>>,
      base64 |->
         <<81, 99, 116, 108, 50, 43, 115, 73, 56, 85, 89, 74, 65, 119, 90, 73,
           100, 107, 70, 67, 99, 81, 61, 61>>],
      [message |->
         <<255, 255, 255>>,
      base64 |->
         <<104, 90, 102, 85, 53, 43, 90, 84, 85, 113, 77, 67, 116, 106, 52,
           72, 118, 65, 71, 110, 50, 103, 61, 61>>]>>

DigestInputs == {MD5_TEST_SUITE[i].message : i \in DOMAIN MD5_TEST_SUITE}

DigestInit ==
    /\ message \in DigestInputs
    /\ md5Hash = <<>>
    /\ dpc = "start"
    /\ md5ctx = MD5_CTX
    /\ fed = 0
    /\ blocks = <<>>
    /\ samples = <<>>
    /\ compressed = <<>>
    /\ expected = <<0, 0>>
    /\ decoded = <<>>
    /\ cpc = "start"
    /\ header = NewFrame.header
    /\ data = NewFrame.data
    /\ width = NewFrame.width
    /\ height = NewFrame.height
    /\ m_error = NewFrame.m_error
    /\ disk = [n \in TargetNames |-> NoFile]
    /\ origin = [n \in TargetNames |-> NoOrigin]
    /\ op = "none"
    /\ ret = "none"
    /\ arg = <<>>
    /\ loc = NoLocals
    /\ pre = NewFrame
    /\ calls = 0

\* std::string md5Hash = generateMD5(compressedData); in
\* CBFFrame::generateArrayDataSection
GenerateMD5 ==
    /\ dpc = "start"
    /\ md5Hash' = generateMD5(message)
    /\ dpc' = "CBFFrame"
    /\ UNCHANGED <<message, md5ctx, fed, blocks>>
    /\ UNCHANGED <<frameVars, fileVars, codecVars>>

\* the same line of CbfFrame::generateArrayDataSection
GenerateMD5Simple ==
    /\ dpc = "start"
    /\ md5Hash' = CbfFrame_generateMD5(message)
    /\ dpc' = "CbfFrame"
    /\ UNCHANGED <<message, md5ctx, fed, blocks>>
    /\ UNCHANGED <<frameVars, fileVars, codecVars>>

DigestNext == GenerateMD5 \/ GenerateMD5Simple

DigestSpec == DigestInit /\ [][DigestNext]_vars

-----------------------------------------------------------------------------
\* the MD5 digest of a message of the test suite, in base64
StandardDigest(bytes) ==
    MD5_TEST_SUITE[CHOOSE i \in DOMAIN MD5_TEST_SUITE :
                      MD5_TEST_SUITE[i].message = bytes].base64

(* C11: in both write implementations (nanocbf::CBFFrame and the CbfFrame  *)
(* of cbfframe_simple) the Content-MD5 value written is the standard MD5   *)
(* digest of the compressed payload in base64 with '=' padding: 24         *)
(* characters ending in "==".                                              *)
C11_ContentMD5 ==
    dpc # "start" =>
        /\ md5Hash = StandardDigest(message)
        /\ Len(md5Hash) = 24
        /\ SubSeq(md5Hash, 23, 24) = <<61, 61>>

(* C12: generateMD5 applied to the empty byte sequence returns             *)
(* "1B2M2Y8AsgTpgAmY7PhCfg==".                                             *)
C12_EmptyDigest ==
    (dpc = "CBFFrame" /\ message = <<>>) =>
        md5Hash = <<49, 66, 50, 77, 50, 89, 56, 65, 115, 103, 84, 112, 103,
                    65, 109, 89, 55, 80, 104, 67, 102, 103, 61, 61>>

\* generateMD5 has run on the empty sequence and returned a text of 24
\* characters
C12_Witness ==
    /\ dpc = "CBFFrame"
    /\ message = <<>>
    /\ Len(md5Hash) = 24

-----------------------------------------------------------------------------
\* the position after the n-th line feed of a text at or after position p
RECURSIVE AfterLineFeeds(_, _, _)
AfterLineFeeds(text, p, n) ==
    IF n = 0 \/ Find(text, <<10>>, p) = NPOS
    THEN p
    ELSE AfterLineFeeds(text, Find(text, <<10>>, p) + 1, n - 1)

\* every line feed of text at a position in from..(to - 1) stands right
\* after a carriage return
CrlfOnly(text, from, to) ==
    \A p \in from..(to - 1) :
        text[p + 1] = 10 => (p >= 1 /\ text[p] = 13)

\* the file written for frame f: its three prefix lines, then the header
\* text, then the declaration and its metadata up to the magic number, and
\* the text after the zero bytes of the trailer
GeneratedCrlf(fileData, f, hdrAt, metaEnd) ==
    /\ CrlfOnly(fileData, 0, hdrAt)
    /\ f.header = <<>> => CrlfOnly(fileData, hdrAt, hdrAt + Len(HeaderOf(f)))
    /\ f.header # <<>> => MatchAt(fileData, f.header, hdrAt)
    /\ CrlfOnly(fileData, hdrAt + Len(HeaderOf(f)), metaEnd)
    /\ MatchAt(fileData, CBF_MAGIC, metaEnd)
    /\ CrlfOnly(fileData, Len(fileData) - Len(TAIL_TEXT), Len(fileData))

(* C13: in the text write generates itself (the prefix lines, the default  *)
(* header, the array-data declaration with its metadata block, the text of *)
(* the trailer) every line feed comes right after a carriage return; the   *)
(* header the caller supplied is emitted as it is, whatever its line ends. *)
C13_CrlfLineEndings ==
    (op = "write" /\ ret = "true") =>
        GeneratedCrlf(disk[arg], pre, AfterLineFeeds(disk[arg], 0, 3),
                      Len(disk[arg]) - Len(CBF_TAIL)
                        - Len(compressData(pre.data)) - Len(CBF_MAGIC))

\* a file written under a header whose own lines end in bare line feeds,
\* which stand in the file as they were given
C13_Witness ==
    /\ op = "write"
    /\ ret = "true"
    /\ pre.header = HEADER_PLAIN
    /\ ~CrlfOnly(disk[arg], 0, Len(disk[arg]) - Len(CBF_TAIL))
    /\ Find(disk[arg], HEADER_PLAIN, 0) = AfterLineFeeds(disk[arg], 0, 3)

-----------------------------------------------------------------------------
(* C15: after a call of read or write that returns failure, getError()     *)
(* returns a non-empty message describing the failure of that call.        *)
C15_FailureHasMessage ==
    (op \in {"read", "write"} /\ ret = "false") => m_error # <<>>

-----------------------------------------------------------------------------
\* the delimiters read() used stand in the file in order: the opening one at
\* or after the declaration, the closing one after the opening one
DelimitersInOrder(fileData, l) ==
    /\ l.arrayDataPos # NPOS
    /\ l.binaryStartPos >= l.arrayDataPos
    /\ MatchAt(fileData, SECTION_START, l.binaryStartPos)
    /\ l.binaryEndPos > l.binaryStartPos
    /\ MatchAt(fileData, SECTION_END, l.binaryEndPos)

(* C17: read fails unless the file holds, at or after the array-data       *)
(* declaration, the opening delimiter and, after that occurrence, a        *)
(* separate occurrence of the closing delimiter; on every successful read  *)
(* the closing position used is greater than the opening position used.    *)
C17_DelimiterOrder ==
    (op = "read" /\ ret = "true") =>
        /\ loc.arrayDataPos = Find(disk[arg], ARRAY_DATA_MARKER, 0)
        /\ DelimitersInOrder(disk[arg], loc)

\* a successful read of a file whose header holds the closing delimiter
\* before the declaration: the delimiters used are the ones after it
C17_Witness ==
    /\ op = "read"
    /\ ret = "true"
    /\ Find(disk[arg], SECTION_END, 0) < loc.arrayDataPos
    /\ loc.binaryStartPos > loc.arrayDataPos
    /\ loc.binaryEndPos > loc.binaryStartPos

-----------------------------------------------------------------------------
(* read() on files made elsewhere: the metadata lines in any order, with   *)
(* values and spacing of several kinds, with and without Content-MD5, and  *)
(* the data_ line in several places                                        *)

\* the payload of these files: the deltas 5, -6 and 1
SCAN_PAYLOAD == <<5, 250, 1>>

\* the three fields parseBinaryInfo has to find, in the order it looks for
\* them, and the values these files give them
FIELD_LABELS == <<WIDTH_LABEL, HEIGHT_LABEL, SIZE_LABEL>>
FIELD_VALUES == <<2, 1, 3>>

\* the orders in which the three field lines can stand
FIELD_ORDERS ==
    <<<<1, 2, 3>>, <<1, 3, 2>>, <<2, 1, 3>>, <<2, 3, 1>>, <<3, 1, 2>>,
      <<3, 2, 1>>>>

\* the line of field k.  Its form is "plain": one space after the colon;
\* "nospace": the value right after the colon; "wide": a space and a tab
\* before the value and a space after it; "missing": no such line; "text":
\* the value "abc"; "huge": the value 99999999999, which does not fit in int
FieldLine(k, form) ==
    CASE form = "plain"   -> FIELD_LABELS[k] \o <<32>>
                               \o decimal(FIELD_VALUES[k]) \o <<10>>
      [] form = "nospace" -> FIELD_LABELS[k]
                               \o decimal(FIELD_VALUES[k]) \o <<10>>
      [] form = "wide"    -> FIELD_LABELS[k] \o <<32, 9>>
                               \o decimal(FIELD_VALUES[k]) \o <<32, 10>>
      [] form = "missing" -> <<>>
      [] form = "text"    -> FIELD_LABELS[k] \o <<32, 97, 98, 99, 10>>
      [] form = "huge"    -> FIELD_LABELS[k]
                               \o <<32, 57, 57, 57, 57, 57, 57, 57, 57, 57,
                                    57, 57, 10>>

\* the Content-MD5 line.  Its kind is "right": with the MD5 digest of
\* SCAN_PAYLOAD in base64, "o/NcfAafSKTXeTm/OrTBUQ=="; "wrong": with
\* "1B2M2Y8AsgTpgAmY7PhCfg==", the digest of no bytes; "empty": with no
\* value; "absent": no such line
Md5Line(kind) ==
    CASE kind = "right"  ->
             MD5_LABEL
               \o <<32, 111, 47, 78, 99, 102, 65, 97, 102, 83, 75, 84, 88,
                    101, 84, 109, 47, 79, 114, 84, 66, 85, 81, 61, 61, 13,
                    10>>
      [] kind = "wrong"  ->
             MD5_LABEL
               \o <<32, 49, 66, 50, 77, 50, 89, 56, 65, 115, 103, 84, 112,
                    103, 65, 109, 89, 55, 80, 104, 67, 102, 103, 61, 61, 13,
                    10>>
      [] kind = "empty"  -> MD5_LABEL \o <<32, 13, 10>>
      [] kind = "absent" -> <<>>

\* the file of parts p: field line p.field is written in form p.form, the
\* two others plainly, and the three stand in order p.order.  "data_"
\* stands, by p.dataLine, "first": at the start of the first line;
\* "inline": only inside the comment line "# see data_x\n"; "late": only
\* in "data_y\n# next block\n" after the closing delimiter; "none": nowhere.
\* The section starts with "X-Binary-Size-Padding: 4095\n" and the file
\* ends with "\r\n", the closing delimiter and "\r\n;\r\n"
ScanFile(p) ==
    (CASE p.dataLine = "first"  -> EXT_DATA_LINE
       [] p.dataLine = "inline" ->
              <<35, 32, 115, 101, 101, 32, 100, 97, 116, 97, 95, 120, 10>>
       [] OTHER                 -> <<>>)
      \o EXT_HEADER \o EXT_MARKER \o SECTION_START \o <<10>>
      \o <<88, 45, 66, 105, 110, 97, 114, 121, 45, 83, 105, 122, 101, 45,
           80, 97, 100, 100, 105, 110, 103, 58, 32, 52, 48, 57, 53, 10>>
      \o Md5Line(p.md5)
      \o FieldLine(FIELD_ORDERS[p.order][1],
                   IF FIELD_ORDERS[p.order][1] = p.field THEN p.form
                   ELSE "plain")
      \o FieldLine(FIELD_ORDERS[p.order][2],
                   IF FIELD_ORDERS[p.order][2] = p.field THEN p.form
                   ELSE "plain")
      \o FieldLine(FIELD_ORDERS[p.order][3],
                   IF FIELD_ORDERS[p.order][3] = p.field THEN p.form
                   ELSE "plain")
      \o <<10>> \o CBF_MAGIC \o SCAN_PAYLOAD
      \o <<13, 10>> \o SECTION_END \o <<13, 10, 59, 13, 10>>
      \o (IF p.dataLine = "late"
          THEN <<100, 97, 116, 97, 95, 121, 10, 35, 32, 110, 101, 120, 116,
                 32, 98, 108, 111, 99, 107, 10>>
          ELSE <<>>)

\* the files read() is handed: every order, field, form and Content-MD5
\* line under a data_ line that starts the file, and the other places of
\* "data_" with the fields written plainly
ScanParts ==
    {p \in [dataLine : {"first", "none", "late", "inline"},
            order    : DOMAIN FIELD_ORDERS,
            field    : DOMAIN FIELD_LABELS,
            form     : {"plain", "nospace", "wide", "missing", "text",
                        "huge"},
            md5      : {"right", "wrong", "empty", "absent"}] :
        \/ p.dataLine = "first"
        \/ p.order = 1 /\ p.field = 1 /\ p.form = "plain" /\ p.md5 = "right"}

ScanInit ==
    /\ \E p \in ScanParts :
          /\ disk = [n \in TargetNames |->
                        IF n = NAME_PLAIN THEN ScanFile(p) ELSE NoFile]
          /\ origin = [n \in TargetNames |->
                          IF n = NAME_PLAIN
                          THEN [kind |-> "external", frame |-> NewFrame,
                                parts |-> p]
                          ELSE NoOrigin]
    /\ header = NewFrame.header
    /\ data = NewFrame.data
    /\ width = NewFrame.width
    /\ height = NewFrame.height
    /\ m_error = NewFrame.m_error
    /\ op = "none"
    /\ ret = "none"
    /\ arg = <<>>
    /\ loc = NoLocals
    /\ pre = NewFrame
    /\ calls = 0
    /\ samples = <<>>
    /\ compressed = <<>>
    /\ expected = <<0, 0>>
    /\ decoded = <<>>
    /\ cpc = "start"
    /\ message = <<>>
    /\ md5Hash = <<>>
    /\ dpc = "start"
    /\ md5ctx = MD5_CTX
    /\ fed = 0
    /\ blocks = <<>>

ScanNext == Read \/ Construct

ScanSpec == ScanInit /\ [][ScanNext]_vars

-----------------------------------------------------------------------------
\* read() has just run on the file of the parts origin[arg].parts
ScanRead == op = "read" /\ arg = NAME_PLAIN

\* and has got as far as parseBinaryInfo, which it calls once it has found
\* the data_ line
ScanParsed == ScanRead /\ loc.headerStartPos # NPOS

Parts == origin[NAME_PLAIN].parts

\* the result r of a read agrees with the one in the state: what was
\* returned, and the width, height and pixels left in the frame
SameOutcome(r) ==
    /\ r.outcome = ret
    /\ r.frame.width = width
    /\ r.frame.height = height
    /\ r.frame.data = data

-----------------------------------------------------------------------------
(* C18: read fails unless a line starting with "data_" stands before the   *)
(* array-data declaration; on a successful read the header is the text     *)
(* between the end of that line (line ends after it skipped) and the start *)
(* of the declaration, and so holds no text from the declaration on.       *)
C18_DataLineBeforeDeclaration ==
    (op = "read" /\ ret = "true") =>
        /\ loc.dataPos < loc.arrayDataPos
        /\ loc.dataPos = 0 \/ disk[arg][loc.dataPos] = 10
        /\ loc.headerStartPos <= loc.arrayDataPos
        /\ header = SubSeq(disk[arg], loc.headerStartPos + 1,
                           loc.arrayDataPos)

-----------------------------------------------------------------------------
(* C19: when one of X-Binary-Size-Fastest-Dimension,                       *)
(* X-Binary-Size-Second-Dimension and X-Binary-Size is missing from the    *)
(* binary-section text, or its value is not a valid integer (text that is  *)
(* no number, or digits that do not fit the integer type), read returns    *)
(* failure with a parse error.                                             *)
C19_RequiredFields ==
    (ScanParsed /\ Parts.form \in {"missing", "text", "huge"}) =>
        /\ ret = "false"
        /\ m_error \in {ERR_WIDTH, ERR_HEIGHT, ERR_SIZE}

-----------------------------------------------------------------------------
\* the fields as these files give them: width, height, size
FieldsParsed ==
    /\ ret = "true"
    /\ width = FIELD_VALUES[1]
    /\ height = FIELD_VALUES[2]
    /\ loc.dataSize = FIELD_VALUES[3]

\* without its own line, X-Binary-Size is not found: it is not taken from
\* the Padding line or from the lines of the two dimensions
SizeOnlyFromItsLine ==
    (ScanParsed /\ Parts.form = "missing" /\ Parts.field = 3) =>
        (ret = "false" /\ m_error = ERR_SIZE)

(* C20, as stated: the parsed width, height and compressed size are the    *)
(* same for every order of the three field lines and for every amount of   *)
(* whitespace, none included, around the value after the colon; and        *)
(* X-Binary-Size is never taken from the lines of the dimensions or of     *)
(* the padding.                                                            *)
C20_AnyWhitespace ==
    /\ (ScanParsed /\ Parts.form \in {"plain", "nospace", "wide"})
          => FieldsParsed
    /\ SizeOnlyFromItsLine

(* C20, amended: the same for every order of the three field lines and     *)
(* for every amount of whitespace of at least one character between the    *)
(* colon and the value (and any after the value).                          *)
C20_OrderAndWhitespace ==
    /\ (ScanParsed /\ Parts.form \in {"plain", "wide"}) => FieldsParsed
    /\ SizeOnlyFromItsLine

\* the lines in the order size, height, width, the height after a space
\* and a tab: the three values are found
C20_Witness ==
    /\ ScanRead
    /\ Parts.order = 6
    /\ Parts.field = 2
    /\ Parts.form = "wide"
    /\ FieldsParsed
    /\ data = <<5, -1>>

-----------------------------------------------------------------------------
(* decompressData on a stream that was cut short *)

\* the number of bytes of the stream that decompressData reads: one more
\* than the highest index it reads, following the loop of decompressData
\* from position pos with produced samples pushed so far
RECURSIVE decompressReach(_, _, _, _, _)
decompressReach(bytes, count, pos, produced, reach) ==
    IF ~(pos < Len(bytes) /\ produced < count)
    THEN reach
    ELSE IF bytes[pos + 1] # 128
    THEN decompressReach(bytes, count, pos + 1, produced + 1, pos + 1)
    ELSE IF pos + 2 >= Len(bytes)
    THEN pos + 1
    ELSE IF ToInt16(readInt16LE(bytes, pos + 1)) # -32768
    THEN decompressReach(bytes, count, pos + 3, produced + 1, pos + 3)
    ELSE IF pos + 6 >= Len(bytes)
    THEN pos + 3
    ELSE decompressReach(bytes, count, pos + 7, produced + 1, pos + 7)

\* samples that take one, three and seven bytes after one another
CutValues == {0, 127, 128, -32768, INT32_MIN}

CutSeqs == UNION {[1..n -> CutValues] : n \in 0..MaxSamples}

CutInit ==
    /\ samples \in CutSeqs
    /\ compressed = <<>>
    /\ expected = <<0, 0>>
    /\ decoded = <<>>
    /\ cpc = "start"
    /\ message = <<>>
    /\ md5Hash = <<>>
    /\ dpc = "start"
    /\ md5ctx = MD5_CTX
    /\ fed = 0
    /\ blocks = <<>>
    /\ header = NewFrame.header
    /\ data = NewFrame.data
    /\ width = NewFrame.width
    /\ height = NewFrame.height
    /\ m_error = NewFrame.m_error
    /\ disk = [n \in TargetNames |-> NoFile]
    /\ origin = [n \in TargetNames |-> NoOrigin]
    /\ op = "none"
    /\ ret = "none"
    /\ arg = <<>>
    /\ loc = NoLocals
    /\ pre = NewFrame
    /\ calls = 0

\* decompressData on the first cut bytes of the stream, for an expected
\* count of width * height samples, fewer or more than were compressed
DecompressPrefix ==
    /\ cpc = "compressed"
    /\ \E cut \in 0..Len(compressed), w \in 0..(MaxSamples + 1),
          h \in 1..2 :
          /\ compressed' = SubSeq(compressed, 1, cut)
          /\ expected' = <<w, h>>
          /\ decoded' = decompressData(SubSeq(compressed, 1, cut), w, h)
    /\ cpc' = "cut"
    /\ UNCHANGED samples
    /\ UNCHANGED <<frameVars, fileVars>>
    /\ UNCHANGED digestVars

CutNext == Compress \/ DecompressPrefix

CutSpec == CutInit /\ [][CutNext]_vars

-----------------------------------------------------------------------------
(* C16: for every sample sequence S, every prefix P of the bytes of        *)
(* compressData(S), cuts inside a 3-byte or 7-byte sequence included, and  *)
(* every expected count n, decompressData(P, n) returns a prefix of S of   *)
(* at most n samples and reads no byte at an index >= len(P).              *)
C16_GracefulTruncation ==
    cpc = "cut" =>
        /\ Len(decoded) <= expected[1] * expected[2]
        /\ Len(decoded) <= Len(samples)
        /\ decoded = SubSeq(samples, 1, Len(decoded))
        /\ decompressReach(compressed, expected[1] * expected[2], 0, 0, 0)
              <= Len(compressed)

\* the stream of 128, -32768, 0 cut inside the seven bytes of its second
\* sample: the first sample alone is returned although three are expected
C16_Witness ==
    /\ cpc = "cut"
    /\ samples = <<128, -32768, 0>>
    /\ compressed = <<128, 128, 0, 128, 0, 128, 128, 127>>
    /\ expected = <<3, 1>>
    /\ decoded = <<128>>

-----------------------------------------------------------------------------
(* The CbfFrame of cbfframe_simple, the class the README includes: its     *)
(* write() and read() on the names and frames of the caller                *)

\* CbfFrame::extractBaseName
CbfFrame_extractBaseName(filepath) ==
    LET lastSlash == FindLastOf(filepath, {47, 92})
        filename  == IF lastSlash = NPOS THEN filepath
                     ELSE Substr(filepath, lastSlash + 1, NPOS)
        dotPos    == FindLastOf(filename, {46})
    IN  IF dotPos # NPOS /\ Substr(filename, dotPos, NPOS) = DOT_CBF
        THEN Substr(filename, 0, dotPos)
        ELSE filename

\* what CbfFrame::write puts into the file it has opened: the text of
\* generateCbfPrefix, the header or that of generateDefaultHeader, the text
\* of generateArrayDataSection, the magic number, the payload and the tail
CbfFrame_writeBytes(filename, frame) ==
    PREFIX_VERSION \o CbfFrame_extractBaseName(filename) \o PREFIX_END
      \o (IF frame.header = <<>> THEN DEFAULT_HEADER ELSE frame.header)
      \o SECTION_HEAD \o decimal(Len(compressData(frame.data)))
      \o SECTION_AFTER_SIZE \o CbfFrame_generateMD5(compressData(frame.data))
      \o SECTION_AFTER_MD5 \o decimal(frame.width * frame.height)
      \o SECTION_AFTER_COUNT \o decimal(frame.width)
      \o SECTION_AFTER_WIDTH \o decimal(frame.height)
      \o SECTION_AFTER_HEIGHT
      \o CBF_MAGIC \o compressData(frame.data) \o CBF_TAIL

\* CbfFrame::read once header is assigned: what follows the call of
\* parseBinaryInfo, whose result is info
CbfFrame_readBinaryInfo(fileData, frame, l, info) ==
    IF info.outcome # "true"
    THEN [outcome |-> info.outcome,
          frame   |-> [frame EXCEPT !.width = info.width,
                                    !.height = info.height,
                                    !.m_error = info.m_error],
          loc     |-> l]
    ELSE readPayload(fileData,
                     [frame EXCEPT !.width = info.width,
                                   !.height = info.height],
                     [l EXCEPT !.dataSize = info.dataSize,
                               !.binaryDataStart =
                                   l.magicPos + Len(CBF_MAGIC)])

\* CbfFrame::read on the bytes of an opened file, l.magicPos being the
\* result of std::search over the whole buffer; CbfFrame::parseBinaryInfo
\* is the search of the three fields over the text before the magic number
CbfFrame_readMagic(fileData, frame, l) ==
    IF l.magicPos = NPOS
    THEN readFail(frame, SubSeq(ERR_MAGIC, 1, 31), l)
    ELSE CbfFrame_readBinaryInfo(
             fileData,
             [frame EXCEPT !.header = SubSeq(fileData, 1, l.magicPos)],
             l,
             parseFields(frame,
                         parseField(SubSeq(fileData, 1, l.magicPos),
                                    WIDTH_LABEL),
                         parseField(SubSeq(fileData, 1, l.magicPos),
                                    HEIGHT_LABEL),
                         parseField(SubSeq(fileData, 1, l.magicPos),
                                    SIZE_LABEL)))

\* bool CbfFrame::write(const std::string& filename) const
SimpleWrite ==
    /\ calls < MaxCalls
    /\ \E filename \in TargetNames, opens \in BOOLEAN :
          /\ arg' = filename
          /\ IF writeAccepts(Frame) /\ opens
             THEN /\ disk' = [disk EXCEPT ![filename] =
                                  CbfFrame_writeBytes(filename, Frame)]
                  /\ origin' = [origin EXCEPT ![filename] =
                                   [kind |-> "written", frame |-> Frame]]
                  /\ ret' = "true"
             ELSE /\ ret' = "false"
                  /\ UNCHANGED <<disk, origin>>
    /\ op' = "write"
    /\ pre' = Frame
    /\ loc' = NoLocals
    /\ calls' = calls + 1
    /\ UNCHANGED frameVars
    /\ UNCHANGED codecVars
    /\ UNCHANGED digestVars

\* bool CbfFrame::read(const std::string& filename)
SimpleRead ==
    /\ calls < MaxCalls
    /\ \E filename \in TargetNames :
          /\ arg' = filename
          /\ \E r \in {IF disk[filename] = NoFile
                       THEN readFail(Frame, ERR_OPEN \o filename, NoLocals)
                       ELSE CbfFrame_readMagic(
                                disk[filename], Frame,
                                [NoLocals EXCEPT
                                    !.fileSize = Len(disk[filename]),
                                    !.magicPos = Find(disk[filename],
                                                      CBF_MAGIC, 0)])} :
                /\ header' = r.frame.header
                /\ data' = r.frame.data
                /\ width' = r.frame.width
                /\ height' = r.frame.height
                /\ m_error' = r.frame.m_error
                /\ ret' = r.outcome
                /\ loc' = r.loc
    /\ op' = "read"
    /\ pre' = Frame
    /\ calls' = calls + 1
    /\ UNCHANGED <<disk, origin>>
    /\ UNCHANGED codecVars
    /\ UNCHANGED digestVars

SimpleNext == SetFrame \/ SimpleWrite \/ SimpleRead

SimpleSpec == Init /\ [][SimpleNext]_vars

-----------------------------------------------------------------------------
\* the opening delimiter of the binary section: the first one at or after
\* the array-data declaration
OpeningAt(fileData) ==
    Find(fileData, SECTION_START, Find(fileData, ARRAY_DATA_MARKER, 0))

\* the first occurrence of 0C 1A 04 D5 at or after the opening delimiter
MagicAfterOpening(fileData) ==
    Find(fileData, CBF_MAGIC, OpeningAt(fileData))

(* C21: read takes as payload start the byte right after the first         *)
(* occurrence of 0C 1A 04 D5 at or after the opening delimiter of the      *)
(* binary section; an occurrence before the opening delimiter (inside the  *)
(* user header) changes neither the payload offset nor the decoded pixels, *)
(* and a buffer with no occurrence at or after the opening delimiter makes *)
(* read fail with an error message.                                        *)
C21_MagicSearch ==
    (op = "read" /\ disk[arg] # NoFile /\ OpeningAt(disk[arg]) # NPOS) =>
        /\ loc.magicPos \in {NPOS, MagicAfterOpening(disk[arg])}
        /\ ret = "true" =>
               loc.binaryDataStart =
                   MagicAfterOpening(disk[arg]) + Len(CBF_MAGIC)
        /\ MagicAfterOpening(disk[arg]) = NPOS =>
               (ret = "false" /\ m_error # <<>>)
        /\ (/\ origin[arg].kind = "written"
            /\ WellFormed(Written)
            /\ ~HoldsMarker(Written.header)
            /\ ~HoldsMarker(extractBaseName(arg)))
               => SameImage(Written)

-----------------------------------------------------------------------------
(* md5Update called several times on consecutive chunks of a message, and  *)
(* md5Final after the last                                                 *)

\* length of the longest message handed over in chunks
MaxMessage == 130

\* the whole 64-byte blocks of input from position i on: the arguments of
\* md5Transform in the for loop of md5Update
RECURSIVE inputBlocks(_, _)
inputBlocks(input, i) ==
    IF i + 64 <= Len(input)
    THEN <<SubSeq(input, i + 1, i + 64)>> \o inputBlocks(input, i + 64)
    ELSE <<>>

\* the blocks one call of md5Update hands to md5Transform, in order: the
\* buffer once filled up, then the whole blocks of the input
md5UpdateBlocks(c, input) ==
    IF (c.count % 64) + Len(input) >= 64
    THEN <<memcpy(c.buffer, c.count % 64,
                  SubSeq(input, 1, 64 - (c.count % 64)))>>
           \o inputBlocks(input, 64 - (c.count % 64))
    ELSE <<>>

\* the blocks md5Final hands to md5Transform once the 0x80 is appended at
\* bufferIndex: two when the bit count does not fit after it
md5FinalBlocksPadded(c, buffer1, index1) ==
    IF index1 > 56
    THEN <<memset0(buffer1, index1, 64 - index1),
           memcpy(memset0(memset0(buffer1, index1, 64 - index1), 0, 56), 56,
                  bitCountBytes(c.count))>>
    ELSE <<memcpy(memset0(buffer1, index1, 56 - index1), 56,
                  bitCountBytes(c.count))>>

md5FinalBlocks(c) ==
    md5FinalBlocksPadded(c, memcpy(c.buffer, c.count % 64, <<128>>),
                         (c.count % 64) + 1)

\* the messages handed over: those of the test suite that reach the padding
\* boundary, the empty one, and one that spans two blocks
StreamInputs ==
    {m \in DigestInputs : Len(m) >= 55 \/ Len(m) = 0}
      \cup {[j \in 1..MaxMessage |-> (j * 37 + 11) % 256]}

\* the chunk lengths a caller hands to md5Update
StreamChunks == {0, 1, 7, 55, 56, 63, 64, 65, 128}

StreamInit ==
    /\ message \in StreamInputs
    /\ md5Hash = <<>>
    /\ dpc = "start"
    /\ md5ctx = MD5_CTX
    /\ fed = 0
    /\ blocks = <<>>
    /\ samples = <<>>
    /\ compressed = <<>>
    /\ expected = <<0, 0>>
    /\ decoded = <<>>
    /\ cpc = "start"
    /\ header = NewFrame.header
    /\ data = NewFrame.data
    /\ width = NewFrame.width
    /\ height = NewFrame.height
    /\ m_error = NewFrame.m_error
    /\ disk = [n \in TargetNames |-> NoFile]
    /\ origin = [n \in TargetNames |-> NoOrigin]
    /\ op = "none"
    /\ ret = "none"
    /\ arg = <<>>
    /\ loc = NoLocals
    /\ pre = NewFrame
    /\ calls = 0

\* md5Update(state, count, buffer, input, length) on the next length bytes
\* of the message
Md5Update ==
    /\ dpc \in {"start", "update"}
    /\ \E length \in StreamChunks :
          /\ fed + length <= Len(message)
          /\ md5ctx' = md5Update(md5ctx, SubSeq(message, fed + 1, fed + length))
          /\ blocks' = blocks \o md5UpdateBlocks(
                                     md5ctx, SubSeq(message, fed + 1, fed + length))
          /\ fed' = fed + length
    /\ dpc' = "update"
    /\ UNCHANGED <<message, md5Hash>>
    /\ UNCHANGED <<frameVars, fileVars, codecVars>>

\* md5Final(digest, state, count, buffer) once the whole message is handed
\* over
Md5Final ==
    /\ dpc \in {"start", "update"}
    /\ fed = Len(message)
    /\ md5Hash' = md5Final(md5ctx)
    /\ blocks' = blocks \o md5FinalBlocks(md5ctx)
    /\ dpc' = "final"
    /\ UNCHANGED <<message, md5ctx, fed>>
    /\ UNCHANGED <<frameVars, fileVars, codecVars>>

StreamNext == Md5Update \/ Md5Final

StreamSpec == StreamInit /\ [][StreamNext]_vars

-----------------------------------------------------------------------------
(* C22: handing a byte sequence to md5Update in any split into consecutive *)
(* chunks (chunks of length 0 and chunks that cross 64-byte boundaries     *)
(* included) and calling md5Final gives the 16-byte digest of handing the  *)
(* whole sequence to one md5Update call, which for the messages of the     *)
(* test suite is the reference digest; the blocks handed to md5Transform   *)
(* are the same, in the same order.                                        *)
C22_DigestStreaming ==
    dpc = "final" =>
        /\ md5Hash = md5Final(md5Update(MD5_CTX, message))
        /\ Len(md5Hash) = 16
        /\ blocks = md5UpdateBlocks(MD5_CTX, message)
                      \o md5FinalBlocks(md5Update(MD5_CTX, message))
        /\ message \in DigestInputs =>
               bytesToBase64(md5Hash) = StandardDigest(message)

\* the 130-byte message handed over in more than one chunk, the whole of it
\* digested: two blocks of the message and the block of the padding
C22_Witness ==
    /\ dpc = "final"
    /\ Len(message) = MaxMessage
    /\ fed = MaxMessage
    /\ Len(blocks) = 3
    /\ blocks[1] = SubSeq(message, 1, 64)
    /\ blocks[2] = SubSeq(message, 65, 128)
    /\ md5Hash = md5Final(md5Update(MD5_CTX, message))

-----------------------------------------------------------------------------
\* the file name with the directory path (up to the last '/' or '\') removed
AfterLastSeparator(filepath) ==
    LET seps == {p \in 1..Len(filepath) : filepath[p] \in {47, 92}}
    IN  IF seps = {} THEN filepath
        ELSE SubSeq(filepath, MaxPos(seps) + 1, Len(filepath))

\* the name with a trailing ".cbf" removed
WithoutDotCbf(name) ==
    IF Len(name) >= Len(DOT_CBF)
          /\ SubSeq(name, Len(name) - Len(DOT_CBF) + 1, Len(name)) = DOT_CBF
    THEN SubSeq(name, 1, Len(name) - Len(DOT_CBF))
    ELSE name

\* the name with every whitespace character replaced by '_'
Underscored(name) ==
    [j \in 1..Len(name) |-> IF IsSpace(name[j]) THEN 95 ELSE name[j]]

\* the text after "data_" in the prefix line of a file, up to its line end
DatasetNameIn(fileData) ==
    Substr(fileData, Find(fileData, DATA_PREFIX, 0) + Len(DATA_PREFIX),
           Find(fileData, <<13, 10>>, Find(fileData, DATA_PREFIX, 0))
             - (Find(fileData, DATA_PREFIX, 0) + Len(DATA_PREFIX)))

(* C23: in every write implementation, the text after "data_" in the       *)
(* prefix line of the file write produced is the target file name with the *)
(* directory path removed, a trailing ".cbf" removed and no other          *)
(* extension removed, and every whitespace character replaced by '_'.      *)
C23_DatasetName ==
    (op = "write" /\ ret = "true") =>
        DatasetNameIn(disk[arg])
            = Underscored(WithoutDotCbf(AfterLastSeparator(arg)))

-----------------------------------------------------------------------------
\* the positions at which decompressData has a sample complete, following
\* its loop from position pos with the ends of the samples so far in cuts
RECURSIVE decompressCuts(_, _, _, _)
decompressCuts(bytes, count, pos, cuts) ==
    IF ~(pos < Len(bytes) /\ Len(cuts) < count)
    THEN cuts
    ELSE IF bytes[pos + 1] # 128
    THEN decompressCuts(bytes, count, pos + 1, Append(cuts, pos + 1))
    ELSE IF pos + 2 >= Len(bytes)
    THEN cuts
    ELSE IF ToInt16(readInt16LE(bytes, pos + 1)) # -32768
    THEN decompressCuts(bytes, count, pos + 3, Append(cuts, pos + 3))
    ELSE IF pos + 6 >= Len(bytes)
    THEN cuts
    ELSE decompressCuts(bytes, count, pos + 7, Append(cuts, pos + 7))

\* the size of the buffer of compressData after each sample of S
EncoderCuts(S) ==
    [i \in 1..Len(S) |-> Len(compressData(SubSeq(S, 1, i)))]

\* the bytes compressData pushed for sample i
SampleBytes(i) ==
    SubSeq(compressed,
           (IF i = 1 THEN 0 ELSE EncoderCuts(samples)[i - 1]) + 1,
           EncoderCuts(samples)[i])

(* C24: in every output of compressData the single byte of a 1-byte sample *)
(* is never 0x80 and the 16-bit value after the 0x80 of a 3-byte sample is *)
(* never 0x8000; the decoder splits the output at the sample boundaries    *)
(* the encoder produced.                                                   *)
C24_Unambiguous ==
    cpc # "start" =>
        /\ \A i \in 1..Len(samples) :
              /\ Len(SampleBytes(i)) \in {1, 3, 7}
              /\ Len(SampleBytes(i)) = 1 => SampleBytes(i)[1] # 128
              /\ Len(SampleBytes(i)) = 3 =>
                    /\ SampleBytes(i)[1] = 128
                    /\ readInt16LE(SampleBytes(i), 1) # 32768
        /\ cpc = "decoded" =>
              decompressCuts(compressed, expected[1] * expected[2], 0, <<>>)
                  = EncoderCuts(samples)

\* one sample of each size after one another (the deltas 127, -128 and
\* INT32_MIN + 1), split by the decoder after 1, 4 and 11 bytes
C24_Witness ==
    /\ cpc = "decoded"
    /\ samples = <<127, -1, INT32_MIN>>
    /\ Len(compressed) = 11
    /\ EncoderCuts(samples) = <<1, 4, 11>>
    /\ decompressCuts(compressed, 3, 0, <<>>) = <<1, 4, 11>>
    /\ decoded = samples

-----------------------------------------------------------------------------
(* C25: whenever read returns failure (the file cannot be opened, a        *)
(* delimiter or the magic number is missing, a required field is missing,  *)
(* or the payload is truncated), the frame's header, data, width and       *)
(* height are what they were before the call.                              *)
C25_FailedReadChangesNothing ==
    (op = "read" /\ ret = "false") =>
        /\ header = pre.header
        /\ data = pre.data
        /\ width = pre.width
        /\ height = pre.height

-----------------------------------------------------------------------------
(* C26 as stated: over any sequence of read and write calls on one frame   *)
(* object, after a call that returns success getError() is empty: it does  *)
(* not return the message of an earlier failed call.                       *)
C26_NoStaleError ==
    (op \in {"read", "write"} /\ ret = "true") => m_error = <<>>

(* C26, amended: after a call of read or write that returns success,       *)
(* getError() returns what it returned before the call: the message of the *)
(* last failed read on the object, and the empty text only when no read    *)
(* has failed on it.                                                       *)
C26_ErrorKept ==
    (op \in {"read", "write"} /\ ret = "true") => m_error = pre.m_error

\* a read that succeeds after the read of a file that does not exist: the
\* message of the first is still there
C26_Witness ==
    /\ op = "read"
    /\ ret = "true"
    /\ calls = 2
    /\ pre.m_error = ERR_OPEN \o NAME_MARKER
    /\ m_error = ERR_OPEN \o NAME_MARKER
    /\ data # <<>>

-----------------------------------------------------------------------------
(* A file written, read back, and written again under the same name *)

\* bool CBFFrame::write(const std::string& filename) const, called with the
\* name of the file that write() made and the last read() returned true on;
\* origin keeps the frame that file was made from and the bytes it held
Rewrite ==
    /\ op = "read"
    /\ ret = "true"
    /\ origin[arg].kind = "written"
    /\ calls <= MaxCalls
    /\ \E opens \in BOOLEAN :
          IF writeAccepts(Frame) /\ opens
          THEN /\ disk' = [disk EXCEPT ![arg] = writeBytes(arg, Frame)]
               /\ origin' = [origin EXCEPT ![arg] =
                                [kind  |-> "rewritten",
                                 frame |-> origin[arg].frame,
                                 file  |-> disk[arg]]]
               /\ ret' = "true"
          ELSE /\ ret' = "false"
               /\ UNCHANGED <<disk, origin>>
    /\ op' = "rewrite"
    /\ pre' = Frame
    /\ loc' = NoLocals
    /\ calls' = calls + 1
    /\ UNCHANGED arg
    /\ UNCHANGED frameVars
    /\ UNCHANGED codecVars
    /\ UNCHANGED digestVars

RewriteNext == SetFrame \/ Write \/ Read \/ Construct \/ Rewrite

RewriteSpec == Init /\ [][RewriteNext]_vars

\* data.size() == width*height > 0
FullImage(f) ==
    Len(f.data) = f.width * f.height /\ f.width * f.height > 0

\* write() was called again and made a file equal to the one it replaced
SameFile == ret = "true" => disk[arg] = origin[arg].file

====
